---------------------------- MODULE Spec2Model ----------------------------
(***************************************************************************)
(* A model of jax/experimental/jax2tf/impl_no_xla.py: the lowering of      *)
(* generalized array operators (convolution, gather, scatter, dynamic      *)
(* slice, ...) onto TensorFlow primitives when XLA is not linked in.       *)
(*                                                                         *)
(* The lowering functions are pure: every call maps its arguments to a     *)
(* result or to an exception.  The state machine is one call at a time:    *)
(* from pc = "idle" a lowering is invoked on arguments drawn from bounded  *)
(* sets (pc' = "done", args' the arguments, res' what the code returns or  *)
(* raises), and Return goes back to "idle".                                *)
(***************************************************************************)
EXTENDS Integers, Sequences, FiniteSets, TLC

VARIABLES pc, op, args, res

vars == <<pc, op, args, res>>

(***************************************************************************)
(* Bounds of the model.                                                    *)
(***************************************************************************)
\* Largest extent of a rank-1 operand of dynamic_slice.
MaxLen == 10
\* Largest extent of an axis of a rank-2 operand of dynamic_slice.
MaxLen2 == 2
\* Largest input extent, window extent, stride and padding amount of a call
\* of the padding classifier.
MaxIn == 3
MaxWin == 3
MaxStride == 2
MaxPad == 2
\* Gather requests: largest operand rank, largest number of batch axes of
\* the index array.
MaxOpRank == 2
MaxBatchRank == 1
\* Convolution requests, per spatial axis: largest input extent, kernel
\* extent, window stride, padding amount and dilation factor.
MaxConvIn == 3
MaxKernel == 2
MaxConvStride == 2
MaxConvPad == 1
MaxDilation == 2
\* Largest extent of a rank-1 scatter operand.
MaxOperandLen == 4
\* Largest rank of an operand of a contraction.
MaxDotRank == 3
\* Largest rank of the operand of a window reduction.
MaxWindowRank == 5
\* Pad requests: largest extent of an axis, largest edge padding (low and
\* high range over -MaxEdgePad..MaxEdgePad) and largest interior padding.
MaxPadExtent == 3
MaxEdgePad == 2
MaxInterior == 2
\* dynamic_update_slice requests: largest extent of the rank-1 operands.
MaxUpdateLen == 4
\* Transpose-convolution padding: largest kernel extent and stride, largest
\* padding amount.
MaxTransposeKernel == 3
MaxTransposePad == 3

(***************************************************************************)
(* Generic helpers.                                                        *)
(***************************************************************************)
Min(a, b) == IF a <= b THEN a ELSE b

Max(a, b) == IF a >= b THEN a ELSE b

Range(s) == {s[i] : i \in DOMAIN s}

\* The result records: a value, a structured lowering error
\* (_xla_disabled_error), or any other exception escaping the lowering.
Ok(v) == [kind |-> "ok", val |-> v]

\* NotImplementedError("Call to <name> cannot be converted with
\* enable_xla=False. <msg>")
_xla_disabled_error(primitive_name, extra_msg) ==
  [kind |-> "NotImplementedError", name |-> primitive_name, msg |-> extra_msg]

\* An exception of another type `exc` raised by `by`.
Crash(exc, by) == [kind |-> "crash", exc |-> exc, by |-> by]

(***************************************************************************)
(* Integers wider than 32 bits.  TensorFlow index tensors may be int64 or  *)
(* uint32; a value v is held as two 16-bit limbs, v = hi * 2^16 + lo with  *)
(* 0 <= lo < 2^16, so that the cast to int32 can wrap as the code's does.  *)
(***************************************************************************)
Limb == 65536

Wide(h, l) == [hi |-> h, lo |-> l]

\* A small integer as a wide value.
ToWide(n) == Wide(IF n >= 0 THEN n \div Limb ELSE -((-n + Limb - 1) \div Limb),
                  n % Limb)

\* Whether the wide value is representable as a signed 32-bit integer.
IsInt32(w) == w.hi >= -32768 /\ w.hi <= 32767

\* The value of an int32-representable wide value.
Int32Value(w) == w.hi * Limb + w.lo

\* A cast that keeps the nearest int32 instead of the low 32 bits.
CastSaturating(w) ==
  IF w.hi > 32767 THEN 2147483647
  ELSE IF w.hi < -32768 THEN (-2147483647) - 1
  ELSE Int32Value(w)

\* tf.cast(x, dtype=tf.int32): keeps the low 32 bits, read as two's
\* complement.
tf_cast_int32(w) ==
  Int32Value(Wide(((w.hi + 32768) % Limb) - 32768, w.lo))

\* tf.clip_by_value(t, lo, hi) = maximum(minimum(t, hi), lo)
tf_clip_by_value(t, lo, hi) == Max(Min(t, hi), lo)

(***************************************************************************)
(* _clip: XLA's clamping of start indices, elementwise over the axes.      *)
(***************************************************************************)
ClipNoUpper(max_indices, start_indices, slice_sizes) ==
  [d \in DOMAIN start_indices |->
     Max(tf_cast_int32(start_indices[d]), 0)]

_clip(max_indices, start_indices, slice_sizes) ==
  [d \in DOMAIN start_indices |->
     LET max_start == tf_cast_int32(ToWide(max_indices[d] - slice_sizes[d]))
     IN  tf_clip_by_value(tf_cast_int32(start_indices[d]), 0, max_start)]

(***************************************************************************)
(* tf.slice(operand, begin, size).  The operand is described by its shape; *)
(* the result by the operand indices it holds on each axis, in order (a    *)
(* slice is the product of its per-axis windows).  TensorFlow fails when   *)
(* a window leaves the operand.                                            *)
(***************************************************************************)
tf_slice(shape, begin, size) ==
  IF \E d \in DOMAIN shape :
       begin[d] < 0 \/ begin[d] > shape[d] - size[d]
  THEN Crash("InvalidArgumentError", "tf.slice")
  ELSE Ok([d \in DOMAIN shape |->
             [j \in 1..size[d] |-> begin[d] + j - 1]])

(***************************************************************************)
(* _dynamic_slice: clamp the start indices, then tf.slice.  `start` keeps  *)
(* the clamped start indices handed to tf.slice.                           *)
(***************************************************************************)
_dynamic_slice(a) ==
  LET start_indices == _clip(a.operand_shape, a.start_indices, a.slice_sizes)
  IN  [start |-> start_indices,
       out   |-> tf_slice(a.operand_shape, start_indices, a.slice_sizes)]

\* Start indices a caller may pass: in range, just out of range on either
\* side, the ends of the int32 range, and values only a wider index type
\* (uint32, int64) holds.
StartValues ==
  {ToWide(n) : n \in -3..(MaxLen + 2)}
    \cup {Wide(-32768, 0), Wide(32767, 65535)}
    \cup {Wide(32768, 0), Wide(32768, 8), Wide(65535, 65535), Wide(65536, 5),
          Wide(-32769, 65534)}

\* <<extent, slice size>> of one axis: 0 <= size <= extent (lax's shape rule
\* for dynamic_slice).
AxisSlices(maxlen) == {nk \in (0..maxlen) \X (0..maxlen) : nk[2] <= nk[1]}

\* The calls of dynamic_slice the model makes: every rank-1 operand up to
\* MaxLen, every rank-2 operand up to MaxLen2 on each axis.
DynamicSliceArgs ==
  {[operand_shape |-> <<nk[1]>>, slice_sizes |-> <<nk[2]>>,
    start_indices |-> <<s>>] :
      nk \in AxisSlices(MaxLen), s \in StartValues}
  \cup
  {[operand_shape |-> <<nk1[1], nk2[1]>>, slice_sizes |-> <<nk1[2], nk2[2]>>,
    start_indices |-> <<s1, s2>>] :
      nk1 \in AxisSlices(MaxLen2), nk2 \in AxisSlices(MaxLen2),
      s1 \in StartValues, s2 \in StartValues}

(***************************************************************************)
(* lax.padtype_to_pads(in_shape, window_shape, window_strides, padding):   *)
(* the canonical padding of a scheme.  VALID is (0, 0) on every axis; SAME *)
(* pads each axis to the output size ceil(input / stride), the odd unit    *)
(* going to the high side.  The strides broadcast over the axes when one   *)
(* stride is given (numpy broadcasting).                                   *)
(***************************************************************************)
CeilDiv(a, b) == (a + b - 1) \div b

StrideOf(window_strides, d) ==
  IF Len(window_strides) = 1 THEN window_strides[1] ELSE window_strides[d]

lax_padtype_to_pads(in_shape, window_shape, window_strides, pad_str) ==
  IF pad_str = "SAME"
  THEN [d \in DOMAIN in_shape |->
          LET st        == StrideOf(window_strides, d)
              out_shape == CeilDiv(in_shape[d], st)
              pad_size  == Max(0, (out_shape - 1) * st + window_shape[d]
                                    - in_shape[d])
          IN  <<pad_size \div 2, pad_size - pad_size \div 2>>]
  ELSE [d \in DOMAIN in_shape |-> <<0, 0>>]

(***************************************************************************)
(* pads_to_padtype: the first of "VALID", "SAME" whose canonical padding   *)
(* equals the given padding, else "EXPLICIT".                              *)
(***************************************************************************)
PadsToPadtypeSameFirst(in_shape, window_shape, window_strides, padding) ==
  IF lax_padtype_to_pads(in_shape, window_shape, window_strides, "SAME")
       = padding
  THEN "SAME"
  ELSE IF lax_padtype_to_pads(in_shape, window_shape, window_strides, "VALID")
            = padding
       THEN "VALID"
       ELSE "EXPLICIT"

pads_to_padtype(in_shape, window_shape, window_strides, padding) ==
  IF lax_padtype_to_pads(in_shape, window_shape, window_strides, "VALID")
       = padding
  THEN "VALID"
  ELSE IF lax_padtype_to_pads(in_shape, window_shape, window_strides, "SAME")
            = padding
       THEN "SAME"
       ELSE "EXPLICIT"

\* One axis of a classifier call: <<input extent, window, stride>>.
PadAxes == (1..MaxIn) \X (1..MaxWin) \X (1..MaxStride)

\* The (low, high) pairs of a rank-1 call and of each axis of a rank-2 call.
PadPairs == (-1..MaxPad) \X (-1..MaxPad)

PadPairs2 == {<<0, 0>>, <<0, 1>>, <<1, 0>>, <<1, 1>>}

PadsToPadtypeArgs ==
  {[in_shape |-> <<x[1]>>, window_shape |-> <<x[2]>>,
    window_strides |-> <<x[3]>>, padding |-> <<p>>] :
      x \in PadAxes, p \in PadPairs}
  \cup
  {[in_shape |-> <<x[1], y[1]>>, window_shape |-> <<x[2], y[2]>>,
    window_strides |-> <<x[3], y[3]>>, padding |-> <<p, q>>] :
      x \in PadAxes, y \in PadAxes, p \in PadPairs2, q \in PadPairs2}

(***************************************************************************)
(* Gather.  Axis numbers are the code's (from 0); tuples are sequences, so *)
(* axis d of a shape is shape[d + 1].                                      *)
(***************************************************************************)
\* The ascending sequence of the members of a set of numbers: a sorted tuple.
RECURSIVE SortedSeq(_)
SortedSeq(S) ==
  IF S = {} THEN <<>>
  ELSE LET m == CHOOSE x \in S : \A y \in S : x <= y
       IN  <<m>> \o SortedSeq(S \ {m})

\* tuple(range(lo, hi))
TupleRange(lo, hi) == [i \in 1..Max(hi - lo, 0) |-> lo + i - 1]

\* The extents of the axes of a gather request.  The preconditions compare
\* extents with 1 and with each other only.
GatherExtents == {1, 2}

\* Shapes of rank 0..maxrank.
Shapes(maxrank) == UNION {[1..r -> GatherExtents] : r \in 0..maxrank}

\* Sequences without repetition of length m over the set S.
InjectiveSeqs(S, m) ==
  {f \in [1..m -> S] : \A i, j \in 1..m : i # j => f[i] # f[j]}

\* The output shape lax's gather shape rule gives: the axes in offset_dims
\* hold the slice sizes of the axes that are not collapsed, in order, and
\* the other axes hold the batch axes of the index array, in order.
GatherOutShape(batch_shape, offset_dims, collapsed, slice_sizes) ==
  LET O       == Len(slice_sizes)
      kept    == SortedSeq({d \in 0..(O - 1) : d \notin collapsed})
      outrank == Len(offset_dims) + Len(batch_shape)
      batchax == SortedSeq({x \in 0..(outrank - 1) : x \notin Range(offset_dims)})
  IN  [x \in 1..outrank |->
         IF (x - 1) \in Range(offset_dims)
         THEN slice_sizes[kept[CHOOSE i \in DOMAIN offset_dims :
                                  offset_dims[i] = x - 1] + 1]
         ELSE batch_shape[CHOOSE i \in DOMAIN batchax : batchax[i] = x - 1]]

\* GatherArgs, with the out-of-bounds mode and `eager`: whether TensorFlow
\* executes the lowering eagerly or while tracing a graph.
GatherArgs(op_shape, batch_shape, slice_sizes, coll, sim, off, mode, eager) ==
  [op_shape            |-> op_shape,
   start_indices_shape |-> batch_shape \o <<Len(sim)>>,
   dnums |-> [offset_dims          |-> SortedSeq(off),
              collapsed_slice_dims |-> SortedSeq(coll),
              start_index_map      |-> sim],
   slice_sizes |-> slice_sizes,
   out_shape   |-> GatherOutShape(batch_shape, SortedSeq(off), coll,
                                  slice_sizes),
   mode  |-> mode,
   eager |-> eager]

\* The gather requests lax accepts (_gather_shape_rule): one slice size per
\* operand axis, at most the extent; collapsed_slice_dims sorted, with slice
\* size 1; start_index_map without repetition, one operand axis per
\* component of an index vector; offset_dims sorted, without repetition and
\* inside the output rank, as many as axes that are not collapsed.  The
\* index array has at least the index-vector axis.
WellFormedSliceSizes(op_shape, slice_sizes) ==
  \A d \in 1..Len(op_shape) : slice_sizes[d] <= op_shape[d]

WellFormedCollapsed(slice_sizes, coll) ==
  \A c \in coll : slice_sizes[c + 1] = 1

WellFormedOffsetDims(op_shape, coll, off) ==
  Cardinality(off) = Len(op_shape) - Cardinality(coll)

\* A precondition's outcomes: it returns (the strategy is applicable), or
\* raises ValueError(msg), or raises another exception.
Accept == [kind |-> "accept"]

ValueError(msg) == [kind |-> "ValueError", msg |-> msg]

(***************************************************************************)
(* _pre_gather_for_scalar_indexing                                         *)
(***************************************************************************)
PreScalarRankAtMost2(a) ==
  IF Len(a.start_indices_shape) > 2
  THEN ValueError("start_indices shape should be 1")
  ELSE Accept

_pre_gather_for_scalar_indexing(a) ==
  IF Len(a.start_indices_shape) # 1
  THEN ValueError("start_indices shape should be 1")
  ELSE Accept

(***************************************************************************)
(* _pre_gather_for_multidim_indexing                                       *)
(***************************************************************************)
_pre_gather_for_multidim_indexing(a) ==
  LET op_shape             == a.op_shape
      start_index_map      == a.dnums.start_index_map
      collapsed_slice_dims == a.dnums.collapsed_slice_dims
      offset_dims          == a.dnums.offset_dims
  IN
  IF ~(/\ Len(op_shape) >= 1
       /\ Len(start_index_map) = 1
       /\ Len(collapsed_slice_dims) = 1
       /\ collapsed_slice_dims[1] = start_index_map[1]
       /\ Len(offset_dims) = Len(op_shape) - 1)
  THEN ValueError("unsupported dimension numbers")
  ELSE IF a.start_indices_shape[Len(a.start_indices_shape)] # 1
  THEN ValueError("start_indices shape[-1] should be 1")
  ELSE
    LET axis       == collapsed_slice_dims[1]
        index_dims == Len(a.start_indices_shape) - 1
        expected_offset_dims ==
          TupleRange(0, axis)
            \o TupleRange(axis + index_dims, Len(op_shape) + index_dims - 1)
        expected_slice_sizes ==
          [d \in 1..Len(op_shape) |->
             IF d = axis + 1 THEN 1 ELSE op_shape[d]]
    IN  IF offset_dims # expected_offset_dims
        THEN ValueError("unsupported offset_dims")
        ELSE IF a.slice_sizes # expected_slice_sizes
        THEN ValueError("unsupported slice_sizes")
        ELSE Accept

(***************************************************************************)
(* _pre_gather_with_batch_dims.  args.op_shape[0] raises IndexError on a   *)
(* rank-0 operand.                                                         *)
(***************************************************************************)
_pre_gather_with_batch_dims(a) ==
  LET batch_dims ==
        {x \in 0..(Len(a.out_shape) - 1) : x \notin Range(a.dnums.offset_dims)}
  IN
  IF Cardinality(batch_dims) # 1
  THEN ValueError("batch_dims should be 1")
  ELSE IF a.dnums.start_index_map
            # TupleRange(0, a.start_indices_shape[Len(a.start_indices_shape)])
  THEN ValueError("unsupported start_index_map")
  ELSE IF Len(a.op_shape) = 0
  THEN Crash("IndexError", "_pre_gather_with_batch_dims")
  ELSE IF a.op_shape[1] # a.start_indices_shape[1]
  THEN ValueError("Batch dimensions in operand and start_indices don't agree")
  ELSE Accept

(***************************************************************************)
(* The strategies' transforms, by the shape of what they return.           *)
(***************************************************************************)
\* An error TensorFlow raises on statically known shapes: a ValueError while
\* tracing a graph, an InvalidArgumentError when executing eagerly.
TfShapeError(a, by) ==
  IF a.eager THEN Crash("InvalidArgumentError", by) ELSE ValueError(by)

\* tf.strided_slice with shrink_axis_mask over collapsed_slice_dims, then
\* set_shape(out_aval.shape).
GatherForScalarIndexingBody(a) ==
  LET kept == SortedSeq({d \in 0..(Len(a.op_shape) - 1) :
                           d \notin Range(a.dnums.collapsed_slice_dims)})
      shape == [i \in DOMAIN kept |-> a.slice_sizes[kept[i] + 1]]
  IN  IF shape # a.out_shape
      THEN ValueError("set_shape")
      ELSE Ok([by |-> "_gather_for_scalar_indexing", shape |-> shape])

\* tf.gather(operand, squeezed indices, axis=axis, batch_dims=0)
GatherForMultidimIndexingBody(a) ==
  LET axis == a.dnums.collapsed_slice_dims[1]
      n    == Len(a.start_indices_shape)
  IN  Ok([by |-> "_gather_for_multidim_indexing",
          shape |-> SubSeq(a.op_shape, 1, axis)
                      \o SubSeq(a.start_indices_shape, 1, n - 1)
                      \o SubSeq(a.op_shape, axis + 2, Len(a.op_shape))])

\* tf.map_fn of tf.slice(operand, begin=idxs, size=slice_sizes) over the
\* rows of the index array, then tf.squeeze(result, axis=1).  tf.slice needs
\* one start per operand axis; tf.squeeze needs extent 1 on axis 1.
GatherWithBatchDimsBody(a) ==
  LET n == Len(a.start_indices_shape)
  IN  IF n # 2 \/ a.start_indices_shape[n] # Len(a.op_shape)
      THEN TfShapeError(a, "tf.slice")
      ELSE IF a.slice_sizes[1] # 1
      THEN TfShapeError(a, "tf.squeeze")
      ELSE Ok([by |-> "_gather_with_batch_dims",
               shape |-> <<a.start_indices_shape[1]>>
                           \o SubSeq(a.slice_sizes, 2, Len(a.slice_sizes))])

\* gather_precondition: the precondition first, then the decorated function.
gather_precondition(pre, body) == IF pre.kind = "accept" THEN body ELSE pre

_gather_for_scalar_indexing(a) ==
  gather_precondition(_pre_gather_for_scalar_indexing(a),
                      GatherForScalarIndexingBody(a))

_gather_for_multidim_indexing(a) ==
  gather_precondition(_pre_gather_for_multidim_indexing(a),
                      GatherForMultidimIndexingBody(a))

_gather_with_batch_dims(a) ==
  gather_precondition(_pre_gather_with_batch_dims(a),
                      GatherWithBatchDimsBody(a))

\* The strategies in the order _gather tries them.
GatherFns == <<"_gather_for_scalar_indexing", "_gather_for_multidim_indexing",
               "_gather_with_batch_dims">>

GatherFn(name, a) ==
  CASE name = "_gather_for_scalar_indexing"   -> _gather_for_scalar_indexing(a)
    [] name = "_gather_for_multidim_indexing" -> _gather_for_multidim_indexing(a)
    [] name = "_gather_with_batch_dims"       -> _gather_with_batch_dims(a)

(***************************************************************************)
(* _gather: FILL_OR_DROP goes to the reference fill-mode gather; otherwise *)
(* the strategies are tried in order.  A ValueError is recorded and the    *)
(* next strategy tried; a value is returned; any other exception leaves    *)
(* the loop.  `tried`: the strategies called; `errors`: the recorded       *)
(* <<strategy, reason>> pairs.                                             *)
(***************************************************************************)
RECURSIVE GatherLoop(_, _, _)
GatherLoop(a, i, errors) ==
  IF i > Len(GatherFns)
  THEN [out    |-> _xla_disabled_error("gather", errors),
        tried  |-> GatherFns,
        errors |-> errors]
  ELSE LET r == GatherFn(GatherFns[i], a)
       IN  IF r.kind = "ValueError"
           THEN GatherLoop(a, i + 1, Append(errors, <<GatherFns[i], r.msg>>))
           ELSE [out    |-> r,
                 tried  |-> SubSeq(GatherFns, 1, i),
                 errors |-> errors]

_gather(a) ==
  IF a.mode = "FILL_OR_DROP"
  THEN [out    |-> Ok([by |-> "_gather_fill", shape |-> a.out_shape]),
        tried  |-> <<>>,
        errors |-> <<>>]
  ELSE GatherLoop(a, 1, <<>>)

(***************************************************************************)
(* Convolution.  A request holds the operand and kernel in lax's default   *)
(* layouts (operand N, C, spatial...; kernel O, I, spatial...), that is,   *)
(* with identity axis permutations in dimension_numbers:                   *)
(*   nsd            the number of spatial axes (len(lhs.shape) - 2)        *)
(*   N, C           batch and feature extents of the operand               *)
(*   O              output feature extent of the kernel                    *)
(*   lhs_spatial, rhs_spatial, window_strides, padding, lhs_dilation,      *)
(*   rhs_dilation   one entry per spatial axis                             *)
(*   feature_group_count, batch_group_count, preferred_element_type,       *)
(*   lhs_dtype                                                             *)
(***************************************************************************)
_conv_error(msg) == _xla_disabled_error("conv_general_dilated", msg)

_validate_spatial_dimensions(nr_spatial_dimensions) ==
  IF nr_spatial_dimensions > 2
  THEN _conv_error("We only support 1D or 2D convolutions")
  ELSE Accept

_normalize_padding_and_dilations(padding, lhs_dilation, rhs_dilation, is_conv1d) ==
  IF is_conv1d
  THEN [padding      |-> padding \o << <<0, 0>> >>,
        lhs_dilation |-> lhs_dilation \o <<1>>,
        rhs_dilation |-> rhs_dilation \o <<1>>]
  ELSE [padding      |-> padding,
        lhs_dilation |-> lhs_dilation,
        rhs_dilation |-> rhs_dilation]

_normalize_window_strides(window_strides) ==
  LET ws == IF Len(window_strides) = 1
            THEN window_strides \o <<1>> ELSE window_strides
  IN  IF Len(ws) = 2 THEN <<1>> \o ws \o <<1>> ELSE ws

\* The operand as NHWC and the kernel as HWIO, a unit W axis added for a 1-D
\* convolution.  tf.transpose with a permutation of four axes fails on an
\* operand of another rank.
_transpose_for_tf_conv(a) ==
  IF a.nsd = 1
  THEN Ok([lhs |-> <<a.N, a.lhs_spatial[1], 1, a.C>>,
           rhs |-> <<a.rhs_spatial[1], 1, a.C \div a.feature_group_count,
                     a.O>>])
  ELSE IF a.nsd = 2
  THEN Ok([lhs |-> <<a.N, a.lhs_spatial[1], a.lhs_spatial[2], a.C>>,
           rhs |-> <<a.rhs_spatial[1], a.rhs_spatial[2],
                     a.C \div a.feature_group_count, a.O>>])
  ELSE Crash("ValueError", "tf.transpose")

\* tf.pad(t, paddings) on a shape.
tf_pad(shape, paddings) ==
  [d \in DOMAIN shape |-> shape[d] + paddings[d][1] + paddings[d][2]]

\* _pad_spatial_dims: for a 1-D convolution the padding list is assembled
\* and the operand returned as it came; tf.pad is applied in the other
\* branch only.
_pad_spatial_dims(in_shape, padding, is_conv1d) ==
  IF is_conv1d
  THEN in_shape
  ELSE tf_pad(in_shape, << <<0, 0>> >> \o padding \o << <<0, 0>> >>)

\* The classifier with the SAME test taken first.
ConvTransposePadtypeSameFirst(kernel_sdims, lhs_dilation, padding) ==
  IF ~(Len(kernel_sdims) = Len(lhs_dilation)
       /\ Len(lhs_dilation) = Len(padding))
  THEN ValueError("Found different lengths")
  ELSE
    LET pad_a(k, st) == IF st > k - 1 THEN k - 1 ELSE CeilDiv(k + st - 2, 2)
        is_same ==
          \A d \in DOMAIN kernel_sdims :
            LET k == kernel_sdims[d]
                st == lhs_dilation[d]
            IN  padding[d] = <<pad_a(k, st), k + st - 2 - pad_a(k, st)>>
        is_valid ==
          \A d \in DOMAIN kernel_sdims :
            LET k == kernel_sdims[d]
                st == lhs_dilation[d]
            IN  padding[d] = <<k - 1, st - 1 + Max(k - st, 0)>>
    IN  IF is_same THEN Ok("SAME")
        ELSE IF is_valid THEN Ok("VALID")
        ELSE ValueError("Transpose convolution padding mode must be SAME or VALID")

\* _conv_transpose_pads_to_padtype: "VALID", "SAME", or a ValueError.
_conv_transpose_pads_to_padtype(kernel_sdims, lhs_dilation, padding) ==
  IF ~(Len(kernel_sdims) = Len(lhs_dilation)
       /\ Len(lhs_dilation) = Len(padding))
  THEN ValueError("Found different lengths")
  ELSE
    LET is_valid ==
          \A d \in DOMAIN kernel_sdims :
            LET k == kernel_sdims[d]
                st == lhs_dilation[d]
                pad_len_valid == k + st - 2 + Max(k - st, 0)
                pad_a == k - 1
                pad_b == pad_len_valid - pad_a
            IN  padding[d][1] = pad_a /\ padding[d][2] = pad_b
        is_same ==
          \A d \in DOMAIN kernel_sdims :
            LET k == kernel_sdims[d]
                st == lhs_dilation[d]
                pad_len_same == k + st - 2
                pad_a == IF st > k - 1 THEN k - 1 ELSE CeilDiv(pad_len_same, 2)
                pad_b == pad_len_same - pad_a
            IN  padding[d][1] = pad_a /\ padding[d][2] = pad_b
    IN  IF is_valid THEN Ok("VALID")
        ELSE IF is_same THEN Ok("SAME")
        ELSE ValueError("Transpose convolution padding mode must be SAME or VALID")

_validate_conv_features(is_transpose, is_atrous, is_depthwise, feature_group_count, batch_group_count, preferred_element_type, lhs_dtype) ==
  IF feature_group_count > 1 /\ ~is_depthwise
  THEN _conv_error("Grouped convolutions are unsupported")
  ELSE IF ~((is_depthwise /\ is_atrous) /\ ~is_transpose)
          /\ Cardinality({f \in {<<1, is_depthwise>>, <<2, is_atrous>>,
                                 <<3, is_transpose>>} : f[2]}) > 1
  THEN _conv_error("Can only do one of depthwise, atrous and tranposed convolutions")
  ELSE IF batch_group_count # 1
  THEN _conv_error("Unimplemented support for batch_group_count != 1")
  ELSE IF preferred_element_type # "None"
          /\ preferred_element_type # lhs_dtype
  THEN _conv_error("Unimplemented support for preferred_element_type")
  ELSE Accept

\* The shape of _out_aval, by lax's shape rule for conv_general_dilated:
\* per spatial axis ceil(max(0, padded dilated input - dilated kernel + 1)
\* / stride).
ConvOutShape(a) ==
  <<a.N \div a.batch_group_count, a.O>>
    \o [d \in 1..a.nsd |->
          LET n  == a.lhs_spatial[d]
              dn == IF n = 0 THEN 0 ELSE (n - 1) * a.lhs_dilation[d] + 1
              dk == (a.rhs_spatial[d] - 1) * a.rhs_dilation[d] + 1
              pn == dn + a.padding[d][1] + a.padding[d][2]
          IN  CeilDiv(Max(0, pn - dk + 1), a.window_strides[d])]

\* The extent tf.nn.conv2d and tf.nn.depthwise_conv2d give an output axis.
TfConvOutDim(n, dk, st, padding_type) ==
  IF padding_type = "SAME" THEN CeilDiv(n, st) ELSE CeilDiv(n - dk + 1, st)

\* What a call of the lowering leaves behind: `out`, the value returned (the
\* TensorFlow call made and the shape of the result; `zero` when it is the
\* all-zero tensor) or the exception; `lhs`, the operand shape (NHWC) handed
\* on after padding; `padding_type`, the scheme handed on.
ConvFailed(e) == [out |-> e, lhs |-> <<>>, padding_type |-> "none"]

_conv_general_dilated(a) ==
  LET out_shape == ConvOutShape(a)
      spatial_ok == _validate_spatial_dimensions(a.nsd)
      is_conv1d == a.nsd = 1
      tf_window_strides == _normalize_window_strides(a.window_strides)
      norm == _normalize_padding_and_dilations(
                a.padding, a.lhs_dilation, a.rhs_dilation, is_conv1d)
      padding == norm.padding
      lhs_dilation == norm.lhs_dilation
      rhs_dilation == norm.rhs_dilation
      t == _transpose_for_tf_conv(a)
  IN
  IF spatial_ok.kind # "accept" THEN ConvFailed(spatial_ok)
  ELSE IF t.kind # "ok" THEN ConvFailed(t)
  ELSE
  LET lhs == t.val.lhs
      rhs == t.val.rhs
      in_channels == lhs[4]
      rhs_spatial_shapes == <<rhs[1], rhs[2]>>
      rhs_out_channel == rhs[4]
      is_transpose == \E d \in DOMAIN lhs_dilation : lhs_dilation[d] # 1
      is_atrous == \E d \in DOMAIN rhs_dilation : rhs_dilation[d] # 1
      is_depthwise == in_channels = a.feature_group_count
                        /\ a.feature_group_count > 1
      features_ok == _validate_conv_features(
                       is_transpose, is_atrous, is_depthwise,
                       a.feature_group_count, a.batch_group_count,
                       a.preferred_element_type, a.lhs_dtype)
      rhs_dilated_shape ==
        [d \in 1..2 |-> (rhs_spatial_shapes[d] - 1) * rhs_dilation[d] + 1]
      classified ==
        IF is_transpose
        THEN _conv_transpose_pads_to_padtype(rhs_spatial_shapes, lhs_dilation,
                                             padding)
        ELSE Ok(pads_to_padtype(<<lhs[2], lhs[3]>>, rhs_dilated_shape,
                                a.window_strides, padding))
  IN
  IF features_ok.kind # "accept" THEN ConvFailed(features_ok)
  ELSE IF classified.kind # "ok"
  THEN ConvFailed(Crash("ValueError", "_conv_transpose_pads_to_padtype"))
  ELSE
  LET explicit == ~is_transpose /\ classified.val = "EXPLICIT"
      lhs2 == IF explicit THEN _pad_spatial_dims(lhs, padding, is_conv1d)
              ELSE lhs
      padding_type == IF explicit THEN "VALID" ELSE classified.val
      nchw(hw) == IF is_conv1d THEN <<lhs2[1], rhs_out_channel, hw[1]>>
                  ELSE <<lhs2[1], rhs_out_channel, hw[1], hw[2]>>
      conv_hw(strides) ==
        [d \in 1..2 |-> TfConvOutDim(lhs2[d + 1], rhs_dilated_shape[d],
                                     strides[d + 1], padding_type)]
      result ==
        IF (\E d \in 1..2 : rhs_dilated_shape[d] > lhs2[d + 1])
             /\ padding_type # "SAME"
        THEN [call |-> "tf.broadcast_to", zero |-> TRUE, dtype |-> "float32",
              shape |-> out_shape]
        ELSE IF is_depthwise
        THEN [call |-> "tf.nn.depthwise_conv2d", zero |-> FALSE,
              input |-> lhs2,
              filter |-> <<rhs[1], rhs[2], in_channels,
                           rhs_out_channel \div in_channels>>,
              strides |-> tf_window_strides, padding |-> padding_type,
              dilations |-> rhs_dilation,
              shape |-> nchw(conv_hw(tf_window_strides))]
        ELSE IF is_transpose
        THEN [call |-> "tf.nn.conv2d_transpose", zero |-> FALSE,
              input |-> lhs2,
              filter |-> <<rhs[1], rhs[2], rhs[4], rhs[3]>>,
              strides |-> lhs_dilation, padding |-> padding_type,
              output_shape |->
                IF is_conv1d
                THEN <<out_shape[1], out_shape[3], 1, out_shape[2]>>
                ELSE <<out_shape[1], out_shape[3], out_shape[4], out_shape[2]>>,
              shape |-> out_shape]
        ELSE [call |-> "tf.nn.conv2d", zero |-> FALSE,
              input |-> lhs2, filter |-> rhs,
              strides |-> tf_window_strides, padding |-> padding_type,
              dilations |-> rhs_dilation,
              shape |-> nchw(conv_hw(tf_window_strides))]
  IN  [out |-> Ok(result), lhs |-> lhs2, padding_type |-> padding_type]

\* One spatial axis of a request: input extent n, kernel extent k, stride
\* st, padding (lo, hi), operand dilation ld and kernel dilation rd.  (lax
\* also takes negative padding, which tf.pad refuses; the requests of the
\* model pad by 0 or more.)
ConvAxes ==
  [n : 1..MaxConvIn, k : 1..MaxKernel, st : 1..MaxConvStride,
   lo : 0..MaxConvPad, hi : 0..MaxConvPad,
   ld : 1..MaxDilation, rd : 1..MaxDilation]

\* The second spatial axis of the 2-D requests: undilated, unit stride, and
\* among them the unit axis a 1-D convolution is given.
ConvAxes2 ==
  [n : 1..2, k : 1..2, st : {1}, lo : 0..1, hi : 0..1, ld : {1}, rd : {1}]

\* A neutral axis for the requests of spatial rank 0 and 3.
UnitAxis == [n |-> 1, k |-> 1, st |-> 1, lo |-> 0, hi |-> 0, ld |-> 1, rd |-> 1]

\* <<C, feature_group_count>>: plain, depthwise (C = feature_group_count >
\* 1), and grouped but not depthwise.
ConvChannels == {<<1, 1>>, <<2, 1>>, <<2, 2>>, <<4, 2>>}

ConvRequest(axes, ch, bgc, pet) ==
  [nsd |-> Len(axes),
   N |-> bgc, C |-> ch[1], O |-> 2 * bgc,
   lhs_spatial    |-> [d \in DOMAIN axes |-> axes[d].n],
   rhs_spatial    |-> [d \in DOMAIN axes |-> axes[d].k],
   window_strides |-> [d \in DOMAIN axes |-> axes[d].st],
   padding        |-> [d \in DOMAIN axes |-> <<axes[d].lo, axes[d].hi>>],
   lhs_dilation   |-> [d \in DOMAIN axes |-> axes[d].ld],
   rhs_dilation   |-> [d \in DOMAIN axes |-> axes[d].rd],
   feature_group_count |-> ch[2],
   batch_group_count |-> bgc,
   preferred_element_type |-> pet,
   lhs_dtype |-> "float32"]

\* The 2-D convolution a 1-D convolution stands for: a unit spatial axis
\* appended to operand and kernel, with stride 1, dilation 1, padding (0, 0).
Lift2D(a) ==
  [a EXCEPT !.nsd = 2,
            !.lhs_spatial = @ \o <<1>>,
            !.rhs_spatial = @ \o <<1>>,
            !.window_strides = @ \o <<1>>,
            !.padding = @ \o << <<0, 0>> >>,
            !.lhs_dilation = @ \o <<1>>,
            !.rhs_dilation = @ \o <<1>>]

(***************************************************************************)
(* Scatter.  A tensor is its shape and its elements, `at` mapping each     *)
(* position (a tuple of 0-based coordinates) to the element there.         *)
(***************************************************************************)
MaxOf(shape) ==
  IF shape = <<>> THEN 0
  ELSE CHOOSE m \in Range(shape) : \A x \in Range(shape) : x <= m

Positions(shape) ==
  {p \in [DOMAIN shape -> 0..MaxOf(shape)] :
     \A d \in DOMAIN shape : p[d] < shape[d]}

Tensor(shape, F(_)) ==
  [shape |-> shape, at |-> [p \in Positions(shape) |-> F(p)]]

\* tf.transpose(t, order): axis i of the result is axis order[i] of t (axes
\* numbered from 0).
tf_transpose(t, order) ==
  LET shape == [i \in DOMAIN order |-> t.shape[order[i] + 1]]
      src(q) == [d \in DOMAIN order |->
                   q[CHOOSE i \in DOMAIN order : order[i] + 1 = d]]
  IN  Tensor(shape, LAMBDA q : t.at[src(q)])

tf_invert_permutation(order) ==
  [d \in DOMAIN order |-> (CHOOSE i \in DOMAIN order : order[i] + 1 = d) - 1]

shift_axes_forward(operand, axes, inverse, forward) ==
  LET other_axes == SortedSeq({x \in 0..(Len(operand.shape) - 1) :
                                 x \notin Range(axes)})
      fwd_order == IF forward THEN axes \o other_axes ELSE other_axes \o axes
      order == IF ~inverse THEN fwd_order
               ELSE tf_invert_permutation(fwd_order)
  IN  tf_transpose(operand, order)

ScatterPrims ==
  {"scatter", "scatter_add", "scatter_mul", "scatter_min", "scatter_max"}

\* The dispatch table's update_op of a scatter variant, on two elements.
update_op(prim, x, y) ==
  CASE prim = "scatter"     -> y
    [] prim = "scatter_add" -> x + y
    [] prim = "scatter_mul" -> x * y
    [] prim = "scatter_min" -> Min(x, y)
    [] prim = "scatter_max" -> Max(x, y)

\* The dispatch table's unsorted_segment_op of a scatter variant.
SegmentOpOf(prim) ==
  CASE prim = "scatter"     -> "None"
    [] prim = "scatter_add" -> "unsorted_segment_sum"
    [] prim = "scatter_mul" -> "unsorted_segment_prod"
    [] prim = "scatter_min" -> "unsorted_segment_min"
    [] prim = "scatter_max" -> "unsorted_segment_max"

\* The limits of int32, which tf.math.unsorted_segment_min and
\* unsorted_segment_max give a segment no update falls in.
Int32Max == 2147483647

Int32Lowest == (-2147483647) - 1

SegmentIdentity(prim) ==
  CASE prim = "scatter_add" -> 0
    [] prim = "scatter_mul" -> 1
    [] prim = "scatter_min" -> Int32Max
    [] prim = "scatter_max" -> Int32Lowest

\* tf.minimum, tf.maximum and the segment reductions by min and max are
\* defined on real element types only.
TfOpDefined(prim, dtype) ==
  ~(prim \in {"scatter_min", "scatter_max"} /\ dtype = "complex128")

ElementWise(prim, x, y) ==
  Tensor(x.shape, LAMBDA q : update_op(prim, x.at[q], y.at[q]))

\* tf.gather_nd(params, indices): one window of params per index vector.
tf_gather_nd(params, scatter_indices) ==
  LET depth == Len(scatter_indices.vecs[1])
      window == SubSeq(params.shape, depth + 1, Len(params.shape))
  IN  IF scatter_indices.batched
      THEN Tensor(<<Len(scatter_indices.vecs)>> \o window,
                  LAMBDA q : params.at[scatter_indices.vecs[q[1] + 1]
                                        \o Tail(q)])
      ELSE Tensor(window, LAMBDA q : params.at[scatter_indices.vecs[1] \o q])

\* t[None]
AddBatchDim(t) == Tensor(<<1>> \o t.shape, LAMBDA q : t.at[Tail(q)])

\* tf.tensor_scatter_nd_update(tensor, indices, updates): the windows are
\* written one after the other in the order the device takes them
\* (`order`, a permutation of the updates), a later write of a position
\* replacing an earlier one.
RECURSIVE ScatterNdWrite(_, _, _, _, _)
ScatterNdWrite(at, vecs, updates, order, j) ==
  IF j > Len(order) THEN at
  ELSE LET i == order[j]
           depth == Len(vecs[i])
       IN  ScatterNdWrite(
             [q \in DOMAIN at |->
                IF SubSeq(q, 1, depth) = vecs[i]
                THEN updates.at[<<i - 1>> \o SubSeq(q, depth + 1, Len(q))]
                ELSE at[q]],
             vecs, updates, order, j + 1)

tf_tensor_scatter_nd_update(tensor, vecs, updates, order) ==
  [shape |-> tensor.shape,
   at |-> ScatterNdWrite(tensor.at, vecs, updates, order, 1)]

\* A segment reduction that keeps the last update of each segment.
SegmentKeepLast(prim, data, segment_ids, num_segments) ==
  Tensor(<<num_segments>> \o Tail(data.shape),
         LAMBDA q :
           LET hits == {i \in DOMAIN segment_ids : segment_ids[i] = q[1]}
           IN  IF hits = {} THEN SegmentIdentity(prim)
               ELSE data.at[<<(CHOOSE i \in hits : \A k \in hits : k <= i) - 1>>
                            \o Tail(q)])

\* tf.math.unsorted_segment_{sum,prod,min,max}(data, segment_ids,
\* num_segments): the rows of data folded, in the order listed, into the
\* segment their id names.
RECURSIVE UnsortedSegmentFold(_, _, _, _, _)
UnsortedSegmentFold(prim, data, segment_ids, i, acc) ==
  IF i > Len(segment_ids) THEN acc
  ELSE UnsortedSegmentFold(
         prim, data, segment_ids, i + 1,
         [q \in DOMAIN acc |->
            IF q[1] = segment_ids[i]
            THEN update_op(prim, acc[q], data.at[<<i - 1>> \o Tail(q)])
            ELSE acc[q]])

unsorted_segment_op(prim, data, segment_ids, num_segments) ==
  LET shape == <<num_segments>> \o Tail(data.shape)
  IN  [shape |-> shape,
       at |-> UnsortedSegmentFold(
                prim, data, segment_ids, 1,
                [q \in Positions(shape) |-> SegmentIdentity(prim)])]

ScatterError(msg) ==
  _xla_disabled_error("scatter_(update/add/multiply/min/max)", msg)

\* A front scatter that treats every request as one with unique indices.
SparseScatterAlwaysUnique(prim, dtype, operand, scatter_indices, updates, unique_indices, order) ==
  IF ~TfOpDefined(prim, dtype) THEN Crash("InvalidArgumentError", "update_op")
  ELSE
    LET suboperand == tf_gather_nd(operand, scatter_indices)
        updated_suboperand == ElementWise(prim, suboperand, updates)
    IN  Ok(tf_tensor_scatter_nd_update(
             operand, scatter_indices.vecs,
             IF scatter_indices.batched THEN updated_suboperand
             ELSE AddBatchDim(updated_suboperand),
             order))

\* _sparse_scatter: scatter into the front axes.  scatter_indices is the
\* list `vecs` of index vectors, `batched` telling whether the index array
\* has a batch axis (rank 2) or is a single index vector (rank 1).
_sparse_scatter(prim, dtype, operand, scatter_indices, updates, unique_indices, order) ==
  LET unique == unique_indices \/ ~scatter_indices.batched
  IN
  IF unique
  THEN
    IF ~TfOpDefined(prim, dtype) THEN Crash("InvalidArgumentError", "update_op")
    ELSE
      LET suboperand == tf_gather_nd(operand, scatter_indices)
          updated_suboperand == ElementWise(prim, suboperand, updates)
      IN  Ok(tf_tensor_scatter_nd_update(
               operand, scatter_indices.vecs,
               IF scatter_indices.batched THEN updated_suboperand
               ELSE AddBatchDim(updated_suboperand),
               order))
  ELSE IF Len(scatter_indices.vecs[1]) = 1 /\ SegmentOpOf(prim) # "None"
  THEN
    IF ~TfOpDefined(prim, dtype)
    THEN Crash("InvalidArgumentError", "unsorted_segment_op")
    ELSE
      LET operand_update ==
            unsorted_segment_op(
              prim, updates,
              [i \in DOMAIN scatter_indices.vecs |-> scatter_indices.vecs[i][1]],
              operand.shape[1])
      IN  Ok(ElementWise(prim, operand, operand_update))
  ELSE ScatterError("Scatter supports unique indices. Scatter also supports non-unique indices with indexing into only one dimension for (add, mul, min, max)")

\* sparse_scatter: the entry checks, the shift of the scattered axes to
\* the front, the front scatter, and the shift back.  `entered` tells
\* whether the entry checks let the request through.
sparse_scatter(a, order) ==
  LET ud == a.dimension_numbers.update_window_dims
      wd == a.dimension_numbers.inserted_window_dims
      sd == a.dimension_numbers.scatter_dims_to_operand_dims
      dtype == a.dtype
  IN
  IF dtype \in {"bool", "complex64"}
  THEN [out |-> ScatterError("Scatter does not support operands of type"),
        entered |-> FALSE]
  ELSE IF ~(wd = sd)
  THEN [out |-> ScatterError("Complex scatters are not supported"),
        entered |-> FALSE]
  ELSE IF ~(a.mode = "PROMISE_IN_BOUNDS")
  THEN [out |-> ScatterError("Only scatter mode PROMISE_IN_BOUNDS is supported"),
        entered |-> FALSE]
  ELSE
    LET updates_shifted == shift_axes_forward(a.updates, ud, FALSE, FALSE)
        y == _sparse_scatter(a.prim, dtype,
                             shift_axes_forward(a.operand, sd, FALSE, TRUE),
                             a.scatter_indices, updates_shifted,
                             a.unique_indices, order)
    IN  [out |-> IF y.kind = "ok"
                 THEN Ok(shift_axes_forward(y.val, sd, TRUE, TRUE))
                 ELSE y,
         entered |-> TRUE]

\* The orders a device may take n updates in.
Orders(n) ==
  {f \in [1..n -> 1..n] : \A i, k \in 1..n : f[i] = f[k] => i = k}

\* Requests.  The number of updates of a scatter into a rank-1 operand, the
\* update values, and the operands: all zero, or element j holding j.
ScatterCounts == {1, 2, 3}

ScatterUpdateVals == {1, 2, 3}

ScatterOperands(shape) ==
  {Tensor(shape, LAMBDA q : 0),
   Tensor(shape, LAMBDA q : IF Len(q) = 2 THEN 2 * q[1] + q[2] ELSE
                            IF Len(q) = 1 THEN q[1] ELSE 0)}

ScatterRequest(prim, dtype, operand, batched, vecs, updates, ud, wd, sd, unique_indices, mode) ==
  [prim |-> prim, dtype |-> dtype, operand |-> operand,
   scatter_indices |-> [batched |-> batched, vecs |-> vecs],
   updates |-> updates,
   dimension_numbers |-> [update_window_dims |-> ud,
                          inserted_window_dims |-> wd,
                          scatter_dims_to_operand_dims |-> sd],
   unique_indices |-> unique_indices, mode |-> mode]

(***************************************************************************)
(* dot_general.  A request holds the operand shapes and element types and  *)
(* dimension_numbers = ((lhs_contracting, rhs_contracting), (lhs_batch,    *)
(* rhs_batch)), axes numbered from 0.                                      *)
(***************************************************************************)
\* string.ascii_letters
ascii_letters ==
  <<"a", "b", "c", "d", "e", "f", "g", "h", "i", "j", "k", "l", "m",
    "n", "o", "p", "q", "r", "s", "t", "u", "v", "w", "x", "y", "z",
    "A", "B", "C", "D", "E", "F", "G", "H", "I", "J", "K", "L", "M",
    "N", "O", "P", "Q", "R", "S", "T", "U", "V", "W", "X", "Y", "Z">>

\* tf.expand_dims(t, axis) and tf.squeeze(t, idxs) on a shape.
tf_expand_dims(shape, axis) ==
  SubSeq(shape, 1, axis) \o <<1>> \o SubSeq(shape, axis + 1, Len(shape))

\* A squeeze that removes nothing.
SqueezeNothing(shape, idxs) == shape

RECURSIVE tf_squeeze(_, _)
tf_squeeze(shape, idxs) ==
  IF idxs = {} THEN shape
  ELSE LET x == CHOOSE y \in idxs : \A z \in idxs : z <= y
       IN  tf_squeeze(SubSeq(shape, 1, x) \o SubSeq(shape, x + 2, Len(shape)),
                      idxs \ {x})

\* tf.linalg.matmul on shapes: equal leading (batch) axes, and inner shapes
\* [m, k] and [k, n].
tf_linalg_matmul(x, y) ==
  LET r == Len(x)
  IN  IF r < 2 \/ Len(y) # r
           \/ SubSeq(x, 1, r - 2) # SubSeq(y, 1, r - 2)
           \/ x[r] # y[r - 1]
      THEN Crash("InvalidArgumentError", "tf.linalg.matmul")
      ELSE Ok(SubSeq(x, 1, r - 2) \o <<x[r - 1], y[r]>>)

\* The matrix-multiply condition without its test of rhs_contracting.
MatmulAnyRhsContracting(a) ==
  LET lhs_contracting == a.dimension_numbers[1][1]
      lhs_batch == a.dimension_numbers[2][1]
      rhs_batch == a.dimension_numbers[2][2]
      lhs_ndim == Len(a.lhs_shape)
      rhs_ndim == Len(a.rhs_shape)
  IN  /\ lhs_batch = rhs_batch
      /\ rhs_batch = TupleRange(0, Len(lhs_batch))
      /\ lhs_ndim - rhs_ndim \in {-1, 0, 1}
      /\ 1 <= lhs_ndim - Len(lhs_batch) /\ lhs_ndim - Len(lhs_batch) <= 2
      /\ 1 <= rhs_ndim - Len(rhs_batch) /\ rhs_ndim - Len(rhs_batch) <= 2
      /\ lhs_contracting = <<lhs_ndim - 1>>

\* The condition of lines 338-343.
DotIsMatmul(a) ==
  LET lhs_contracting == a.dimension_numbers[1][1]
      rhs_contracting == a.dimension_numbers[1][2]
      lhs_batch == a.dimension_numbers[2][1]
      rhs_batch == a.dimension_numbers[2][2]
      lhs_ndim == Len(a.lhs_shape)
      rhs_ndim == Len(a.rhs_shape)
  IN  /\ lhs_batch = rhs_batch
      /\ rhs_batch = TupleRange(0, Len(lhs_batch))
      /\ lhs_ndim - rhs_ndim \in {-1, 0, 1}
      /\ 1 <= lhs_ndim - Len(lhs_batch) /\ lhs_ndim - Len(lhs_batch) <= 2
      /\ 1 <= rhs_ndim - Len(rhs_batch) /\ rhs_ndim - Len(rhs_batch) <= 2
      /\ lhs_contracting = <<lhs_ndim - 1>>
      /\ rhs_contracting = <<Len(lhs_batch)>>

\* Lines 362-373: expansion, tf.linalg.matmul, squeeze.
DotMatmul(a) ==
  LET lhs_batch == a.dimension_numbers[2][1]
      rhs_batch == a.dimension_numbers[2][2]
      lhs_ndim == Len(a.lhs_shape)
      rhs_ndim == Len(a.rhs_shape)
      expand_lhs == lhs_ndim - Len(lhs_batch) = 1
      expand_rhs == rhs_ndim - Len(rhs_batch) = 1
      lhs == IF expand_lhs THEN tf_expand_dims(a.lhs_shape, lhs_ndim - 1)
             ELSE a.lhs_shape
      rhs == IF expand_rhs THEN tf_expand_dims(a.rhs_shape, rhs_ndim)
             ELSE a.rhs_shape
      squeeze_idxs == (IF expand_lhs THEN {Len(lhs) - 2} ELSE {})
                        \cup (IF expand_rhs THEN {Len(rhs) - 1} ELSE {})
      result == tf_linalg_matmul(lhs, rhs)
  IN  [path |-> "matmul", lhs |-> lhs, rhs |-> rhs,
       squeeze_idxs |-> squeeze_idxs,
       out |->
         IF a.lhs_dtype # a.rhs_dtype
         THEN Crash("InvalidArgumentError", "tf.linalg.matmul")
         ELSE IF result.kind # "ok" THEN result
         ELSE IF squeeze_idxs = {} THEN result
         ELSE IF \E x \in squeeze_idxs : result.val[x + 1] # 1
         THEN Crash("AssertionError", "_dot_general")
         ELSE Ok(tf_squeeze(result.val, squeeze_idxs))]

\* The last pair of a list of axis pairs that names the axis, 0 if none.
LastPairOf(axes, axis) ==
  IF \E k \in DOMAIN axes : axes[k] = axis
  THEN CHOOSE k \in DOMAIN axes :
         axes[k] = axis /\ \A j \in DOMAIN axes : axes[j] = axis => j <= k
  ELSE 0

\* Output labels that leave out the contracting axes only.
DotOutAxisIdsKeepBatch(n, first, cs, bs) ==
  [i \in 1..n |->
     IF LastPairOf(cs, i - 1) # 0 THEN "None" ELSE ascii_letters[first + i]]

\* lhs_out_axis_ids / rhs_out_axis_ids (lines 378-394): the labels first
\* given to the n axes of an operand (the letters after the first `first`),
\* "None" marking an axis of a contracting pair (cs) or a batch pair (bs).
DotOutAxisIds(n, first, cs, bs) ==
  [i \in 1..n |->
     IF LastPairOf(bs, i - 1) # 0 \/ LastPairOf(cs, i - 1) # 0
     THEN "None" ELSE ascii_letters[first + i]]

\* Lines 375-403: the labels of the einsum equation and the shape of its
\* result.
DotEinsum(a) ==
  LET lhs_contracting == a.dimension_numbers[1][1]
      rhs_contracting == a.dimension_numbers[1][2]
      lhs_batch == a.dimension_numbers[2][1]
      rhs_batch == a.dimension_numbers[2][2]
      nl == Len(a.lhs_shape)
      nr == Len(a.rhs_shape)
      nc == Min(Len(lhs_contracting), Len(rhs_contracting))
      nb == Min(Len(lhs_batch), Len(rhs_batch))
      lc == SubSeq(lhs_contracting, 1, nc)
      rc == SubSeq(rhs_contracting, 1, nc)
      lb == SubSeq(lhs_batch, 1, nb)
      rb == SubSeq(rhs_batch, 1, nb)
      contract_id(k) == ascii_letters[nl + nr + k]
      batch_id(k) == ascii_letters[nl + nr + nc + k]
      axis_ids(n, first, cs, bs) ==
        [i \in 1..n |->
           IF LastPairOf(bs, i - 1) # 0 THEN batch_id(LastPairOf(bs, i - 1))
           ELSE IF LastPairOf(cs, i - 1) # 0
           THEN contract_id(LastPairOf(cs, i - 1))
           ELSE ascii_letters[first + i]]
      lhs_axis_ids == axis_ids(nl, 0, lc, lb)
      rhs_axis_ids == axis_ids(nr, nl, rc, rb)
      batch_ids == [k \in 1..nb |-> batch_id(k)]
      out_axis_ids ==
        SelectSeq(batch_ids \o DotOutAxisIds(nl, 0, lc, lb)
                    \o DotOutAxisIds(nr, nl, rc, rb),
                  LAMBDA x : x # "None")
      extent(id) ==
        IF \E i \in 1..nl : lhs_axis_ids[i] = id
        THEN a.lhs_shape[CHOOSE i \in 1..nl : lhs_axis_ids[i] = id]
        ELSE a.rhs_shape[CHOOSE i \in 1..nr : rhs_axis_ids[i] = id]
  IN  IF nl + nr + nc + nb > Len(ascii_letters)
      THEN [path |-> "einsum", lhs_axis_ids |-> <<>>, rhs_axis_ids |-> <<>>,
            out_axis_ids |-> <<>>, out |-> Crash("StopIteration", "_dot_general")]
      ELSE
      [path |-> "einsum", lhs_axis_ids |-> lhs_axis_ids,
       rhs_axis_ids |-> rhs_axis_ids, out_axis_ids |-> out_axis_ids,
       out |-> IF a.lhs_dtype # a.rhs_dtype
               THEN Crash("AssertionError", "_dot_general")
               ELSE IF \E k \in DOMAIN out_axis_ids :
                         out_axis_ids[k] \notin Range(lhs_axis_ids)
                                                  \cup Range(rhs_axis_ids)
               THEN \* tf.einsum: an output label that no operand has
                    Crash("ValueError", "tf.einsum")
               ELSE Ok([k \in DOMAIN out_axis_ids |-> extent(out_axis_ids[k])])]

_dot_general(a) == IF DotIsMatmul(a) THEN DotMatmul(a) ELSE DotEinsum(a)

\* Requests: the left operand's extents are 4 or 5, a right axis paired
\* with a left axis has that axis's extent and every other right axis has
\* extent 6.  la and ra list the paired axes, the first nc pairs contracting
\* and the others batch.
DotRequest(lhs_shape, nr, la, ra, nc, rhs_dtype) ==
  [lhs_shape |-> lhs_shape,
   rhs_shape |-> [j \in 1..nr |->
                    IF \E k \in DOMAIN ra : ra[k] = j - 1
                    THEN lhs_shape[la[CHOOSE k \in DOMAIN ra : ra[k] = j - 1] + 1]
                    ELSE 6],
   dimension_numbers |->
     << <<SubSeq(la, 1, nc), SubSeq(ra, 1, nc)>>,
        <<SubSeq(la, nc + 1, Len(la)), SubSeq(ra, nc + 1, Len(ra))>> >>,
   lhs_dtype |-> "float32", rhs_dtype |-> rhs_dtype]

(***************************************************************************)
(* reduce_window_sum and reduce_window_max.  A request holds the operand   *)
(* shape and element type, and window_dimensions, window_strides, padding, *)
(* base_dilation and window_dilation with one entry per axis.              *)
(***************************************************************************)
ReduceWindowError(name, msg) == _xla_disabled_error(name, msg)

\* The element types tf.nn.max_pool is refused for, and those tf.nn.avg_pool
\* is accepted for.
MaxPoolUnsupported == {"bool", "uint32", "uint64", "complex64", "complex128"}

AvgPoolSupported == {"float16", "float32", "float64"}

\* The output shape of tf.nn.max_pool / tf.nn.avg_pool.
tf_nn_pool(input, ksize, strides, padding) ==
  [d \in DOMAIN input |->
     IF padding = "SAME" THEN CeilDiv(input[d], strides[d])
     ELSE CeilDiv(input[d] - ksize[d] + 1, strides[d])]

\* Line 513
SpatialRankUnsupported(nb_spatial_dimensions) ==
  nb_spatial_dimensions < 1 \/ nb_spatial_dimensions > 3

_reduce_window(a) ==
  LET name == a.name
      dtype == a.dtype
      rank == Len(a.operand_shape)
      ones == [d \in 1..rank |-> 1]
  IN
  IF name = "reduce_window_max" /\ dtype \in MaxPoolUnsupported
  THEN ReduceWindowError(name, "tf.nn.max_pool does not support operands of type")
  ELSE IF name = "reduce_window_sum" /\ dtype \notin AvgPoolSupported
  THEN ReduceWindowError(name, "tf.nn.avg_pool does not support operands of type")
  ELSE IF Len(a.window_dimensions) = 0
  THEN Crash("IndexError", "_reduce_window")
  ELSE
  LET has_batch_dim == a.window_dimensions[1] = 1
      has_channel_dim == a.window_dimensions[Len(a.window_dimensions)] = 1
      nb_spatial_dimensions ==
        rank - (IF has_batch_dim THEN 1 ELSE 0)
             - (IF has_channel_dim THEN 1 ELSE 0)
      tf_padding == pads_to_padtype(a.operand_shape, a.window_dimensions,
                                    a.window_strides, a.padding)
      front == IF has_batch_dim THEN <<>> ELSE <<1>>
      back == IF has_channel_dim THEN <<>> ELSE <<1>>
      tf_operand == front \o a.operand_shape \o back
      tf_window_dimensions == front \o a.window_dimensions \o back
      tf_window_strides == front \o a.window_strides \o back
      tf_data_format ==
        <<"N">> \o SubSeq(<<"D", "H", "W">>, 4 - nb_spatial_dimensions, 3)
                \o <<"C">>
      pooled == tf_nn_pool(tf_operand, tf_window_dimensions,
                           tf_window_strides, tf_padding)
  IN
  IF SpatialRankUnsupported(nb_spatial_dimensions)
  THEN ReduceWindowError(name, "TensorFlow can only handle pooling for arrays with 1, 2, or 3 spatial dimensions")
  ELSE IF a.base_dilation # ones
  THEN ReduceWindowError(name, "Unimplemented support for base dilation")
  ELSE IF a.window_dilation # ones
  THEN ReduceWindowError(name, "Unimplemented support for window dilation")
  ELSE IF tf_padding = "EXPLICIT"
  THEN ReduceWindowError(name, "Padding should either be 'VALID' or 'SAME'.")
  ELSE IF name \notin {"reduce_window_max", "reduce_window_sum"}
  THEN ReduceWindowError(name, "Only reduce_window_max and reduce_window_sum are supported.")
  ELSE
    Ok([call |-> IF name = "reduce_window_max" THEN "tf.nn.max_pool"
                 ELSE "tf.nn.avg_pool",
        input |-> tf_operand, ksize |-> tf_window_dimensions,
        strides |-> tf_window_strides, padding |-> tf_padding,
        data_format |-> tf_data_format,
        shape |-> SubSeq(pooled, 1 + Len(front), Len(pooled) - Len(back))])

\* The axes of the requests: <<extent, window, stride, <<low, high>>>>.  A
\* unit window; a window of 2 without padding; a window of 2 with stride 2
\* and the SAME padding (0, 1) of an axis of extent 3; a window of 2 with
\* the padding (1, 1).
WindowAxes ==
  {<<2, 1, 1, <<0, 0>>>>, <<2, 2, 1, <<0, 0>>>>,
   <<3, 2, 2, <<0, 1>>>>, <<2, 2, 1, <<1, 1>>>>}

\* The dilation of the first axis (1 on every other axis): <<base, window>>.
WindowDilations == {<<1, 1>>, <<2, 1>>, <<1, 2>>}

ReduceWindowRequest(name, dtype, axes, dil) ==
  [name |-> name, dtype |-> dtype,
   operand_shape     |-> [d \in DOMAIN axes |-> axes[d][1]],
   window_dimensions |-> [d \in DOMAIN axes |-> axes[d][2]],
   window_strides    |-> [d \in DOMAIN axes |-> axes[d][3]],
   padding           |-> [d \in DOMAIN axes |-> axes[d][4]],
   base_dilation     |-> [d \in DOMAIN axes |-> IF d = 1 THEN dil[1] ELSE 1],
   window_dilation   |-> [d \in DOMAIN axes |-> IF d = 1 THEN dil[2] ELSE 1]]

(***************************************************************************)
(* pad.  A request holds the operand (a tensor), the padding value,        *)
(* padding_config with one (low, high, interior) triple per axis, and      *)
(* out_shape, the shape of _out_aval.                                      *)
(***************************************************************************)
\* tf.scatter_nd(indices, updates, shape): zero, plus the sum of the updates
\* sent to a position.  Index(q) is the position the update at q is sent to.
RECURSIVE SumAt(_, _)
SumAt(S, t) ==
  IF S = {} THEN 0
  ELSE LET q == CHOOSE x \in S : TRUE
       IN  t.at[q] + SumAt(S \ {q}, t)

tf_scatter_nd(Index(_), updates, shape) ==
  Tensor(shape, LAMBDA p : SumAt({q \in Positions(updates.shape) : Index(q) = p},
                                 updates))

\* The same scatter of tf.ones_like(operand, dtype=bool): the mask.
tf_scatter_nd_mask(Index(_), updates, shape) ==
  Tensor(shape, LAMBDA p : \E q \in Positions(updates.shape) : Index(q) = p)

\* Lines 423-425: output_shape, the shape of the interior-padded buffer.
InteriorOutputShape(operand_shape, padding_config) ==
  [d \in DOMAIN operand_shape |->
     LET dilation_factor == padding_config[d][3] + 1
     IN  operand_shape[d] * dilation_factor - padding_config[d][3]]

_interior_padding(operand, padding_value, padding_config, operand_shape) ==
  LET output_shape == InteriorOutputShape(operand_shape, padding_config)
      indices_cartesian(q) ==
        [d \in DOMAIN operand_shape |-> q[d] * (padding_config[d][3] + 1)]
  IN  IF \E d \in DOMAIN output_shape : output_shape[d] < 0
      THEN Crash("InvalidArgumentError", "tf.scatter_nd")
      ELSE
        LET scattered == tf_scatter_nd(indices_cartesian, operand, output_shape)
            mask == tf_scatter_nd_mask(indices_cartesian, operand, output_shape)
        IN  Ok(Tensor(output_shape,
                      LAMBDA p : IF mask.at[p] THEN scattered.at[p]
                                 ELSE padding_value))

\* tf.pad(t, paddings, mode="CONSTANT", constant_values=v)
tf_pad_constant(t, paddings, v) ==
  Tensor([d \in DOMAIN t.shape |-> t.shape[d] + paddings[d][1] + paddings[d][2]],
         LAMBDA p :
           IF \A d \in DOMAIN t.shape :
                paddings[d][1] <= p[d] /\ p[d] < paddings[d][1] + t.shape[d]
           THEN t.at[[d \in DOMAIN t.shape |-> p[d] - paddings[d][1]]]
           ELSE v)

\* Slice begins that trim nothing.
PadBeginsZero(padding_config) == [d \in DOMAIN padding_config |-> 0]

\* Line 459
PadBegins(padding_config) ==
  [d \in DOMAIN padding_config |->
     IF padding_config[d][1] < 0 THEN -padding_config[d][1] ELSE 0]

_pad(a) ==
  LET padding_config == a.padding_config
      interior ==
        IF \E d \in DOMAIN padding_config : padding_config[d][3] # 0
        THEN _interior_padding(a.operand, a.padding_value, padding_config,
                               a.operand.shape)
        ELSE Ok(a.operand)
  IN
  IF interior.kind # "ok" THEN interior
  ELSE
    LET non_negative_padding ==
          [d \in DOMAIN padding_config |->
             <<Max(padding_config[d][1], 0), Max(padding_config[d][2], 0)>>]
        padded == tf_pad_constant(interior.val, non_negative_padding,
                                  a.padding_value)
        sl == tf_slice(padded.shape, PadBegins(padding_config), a.out_shape)
    IN  IF \E d \in DOMAIN padding_config :
             padding_config[d][1] < 0 \/ padding_config[d][2] < 0
        THEN IF sl.kind # "ok" THEN sl
             ELSE Ok(Tensor(a.out_shape,
                            LAMBDA p : padded.at[[d \in DOMAIN p |->
                                                    sl.val[d][p[d] + 1]]]))
        ELSE Ok(padded)

\* The shape lax gives the result of pad.
PadOutExtent(n, t) == t[1] + t[2] + n + Max(n - 1, 0) * t[3]

\* One axis of a request: <<extent, <<low, high, interior>>>>, the result
\* extent not negative.
PadAxes1 ==
  {x \in (0..MaxPadExtent)
           \X ((-MaxEdgePad..MaxEdgePad) \X (-MaxEdgePad..MaxEdgePad)
                 \X (0..MaxInterior)) :
     PadOutExtent(x[1], x[2]) >= 0}

\* The second axis of the rank-2 requests.
PadAxes2 ==
  {<<2, <<0, 0, 0>>>>, <<2, <<1, 0, 1>>>>, <<2, <<-1, 1, 0>>>>,
   <<1, <<0, 1, 2>>>>, <<3, <<-1, -1, 1>>>>, <<0, <<1, 1, 0>>>>}

\* The operand of a request holds a different element at every position
\* (1, 2, ... in row-major order, fewer than 10 to a row) and the padding
\* value is 0: the lowering moves elements and never computes with them.
PadRequest(axes) ==
  LET shape == [d \in DOMAIN axes |-> axes[d][1]]
  IN  [operand |-> Tensor(shape, LAMBDA q : IF Len(q) = 1 THEN q[1] + 1
                                            ELSE 10 * q[1] + q[2] + 1),
       padding_value |-> 0,
       padding_config |-> [d \in DOMAIN axes |-> axes[d][2]],
       out_shape |-> [d \in DOMAIN axes |-> PadOutExtent(axes[d][1], axes[d][2])]]

(***************************************************************************)
(* dynamic_update_slice.  A request holds the operand and the update       *)
(* (tensors) and one start index per operand axis.                         *)
(***************************************************************************)
\* The row-major number of position p in a tensor of the given shape.
RECURSIVE FlatId(_, _)
FlatId(shape, p) ==
  IF shape = <<>> THEN 0
  ELSE FlatId(SubSeq(shape, 1, Len(shape) - 1), SubSeq(p, 1, Len(p) - 1))
         * shape[Len(shape)] + p[Len(p)]

RECURSIVE SizeOf(_)
SizeOf(shape) == IF shape = <<>> THEN 1 ELSE shape[1] * SizeOf(Tail(shape))

\* tf.reshape(t, shape), tf.keras.backend.flatten(t)
tf_reshape(t, shape) ==
  LET src(id) == CHOOSE q \in Positions(t.shape) : FlatId(t.shape, q) = id
  IN  Tensor(shape, LAMBDA p : t.at[src(FlatId(shape, p))])

flatten(t) == tf_reshape(t, <<SizeOf(t.shape)>>)

\* tf.strided_slice(t, begin, end) with unit strides.
tf_strided_slice(t, begin, end) ==
  Tensor([d \in DOMAIN begin |-> end[d] - begin[d]],
         LAMBDA q : t.at[[d \in DOMAIN begin |-> begin[d] + q[d]]])

\* Start indices that are used as they come.
ClipNothing(max_indices, start_indices, slice_sizes) ==
  [d \in DOMAIN start_indices |-> tf_cast_int32(start_indices[d])]

UpdateStart(op_shape, start_indices, update_shape) ==
  _clip(op_shape, start_indices, update_shape)

_dynamic_update_slice(a) ==
  LET operand == a.operand
      op_shape == operand.shape
      op_size == SizeOf(op_shape)
      update_shape_tf == a.update.shape
      start_indices == UpdateStart(op_shape, a.start_indices, update_shape_tf)
      end_indices == [d \in DOMAIN start_indices |->
                        start_indices[d] + update_shape_tf[d]]
      id_tensor == tf_reshape(Tensor(<<op_size>>, LAMBDA q : q[1]), op_shape)
      scattered_indices == tf_strided_slice(id_tensor, start_indices, end_indices)
      flat_indices == flatten(scattered_indices)
      flat_update == flatten(a.update)
      index(q) == <<flat_indices.at[q]>>
      update == tf_reshape(tf_scatter_nd(index, flat_update, <<op_size>>),
                           op_shape)
      update_mask == tf_reshape(tf_scatter_nd_mask(index, flat_update,
                                                   <<op_size>>),
                                op_shape)
  IN  \* A window that leaves the operand is cut short by tf.strided_slice,
      \* and tf.scatter_nd rejects fewer indices than updates.
      IF \E d \in DOMAIN op_shape :
           start_indices[d] < 0 \/ end_indices[d] > op_shape[d]
      THEN [start |-> start_indices,
            out |-> Crash("InvalidArgumentError", "tf.scatter_nd")]
      ELSE [start |-> start_indices,
            out |-> Ok(Tensor(op_shape,
                              LAMBDA p : IF update_mask.at[p] THEN update.at[p]
                                         ELSE operand.at[p]))]

\* Start indices of the requests: in range, out of range on either side,
\* and values only a wider index type holds.
UpdateStartValues(n) ==
  {ToWide(x) : x \in -2..(n + 1)} \cup {Wide(32768, 0), Wide(65535, 65535)}

\* The elements of an update: 0 or 9.  The operands hold 1, 2, ... in
\* row-major order.
UpdateVals == {0, 9}

UpdateRequest(op_shape, update, start_indices) ==
  [operand |-> Tensor(op_shape, LAMBDA q : FlatId(op_shape, q) + 1),
   update |-> update,
   start_indices |-> start_indices]

(***************************************************************************)
(* The start indices the gather strategies and the scatter strategies      *)
(* hand to TensorFlow.  A window is one axis of one slice: the extent of   *)
(* the operand axis, the start handed over, and the slice size.            *)
(***************************************************************************)
Window(extent, start, size) == [extent |-> extent, start |-> start, size |-> size]

\* Lines 660-667: the index vector is scattered to the operand axes named by
\* start_index_map (0 elsewhere) and clamped.
GatherScalarWindows(a, idx) ==
  LET sim == a.dnums.start_index_map
      begin0 == [d \in DOMAIN a.op_shape |->
                   IF \E i \in DOMAIN sim : sim[i] = d - 1
                   THEN idx[<<(CHOOSE i \in DOMAIN sim : sim[i] = d - 1) - 1>>]
                   ELSE ToWide(0)]
      begin == _clip(a.op_shape, begin0, a.slice_sizes)
  IN  {Window(a.op_shape[d], begin[d], a.slice_sizes[d]) : d \in DOMAIN a.op_shape}

\* Lines 729-733: every index is clamped to the axis and handed to tf.gather.
GatherMultidimWindows(a, idx) ==
  LET axis == a.dnums.collapsed_slice_dims[1]
  IN  {Window(a.op_shape[axis + 1],
              _clip(<<a.op_shape[axis + 1]>>, <<idx[q]>>, <<1>>)[1], 1) :
         q \in DOMAIN idx}

\* Lines 769-774: every row of the index array is clamped and handed to
\* tf.slice.
GatherBatchWindows(a, idx) ==
  UNION {LET begin == _clip(a.op_shape,
                            [d \in DOMAIN a.op_shape |-> idx[<<b, d - 1>>]],
                            a.slice_sizes)
         IN  {Window(a.op_shape[d], begin[d], a.slice_sizes[d]) :
                d \in DOMAIN a.op_shape} :
           b \in 0..(a.start_indices_shape[1] - 1)}

\* _gather on a request with the elements idx of its index array.
GatherIndexed(a, idx) ==
  LET r == _gather(a)
      by == r.out.val.by
      windows ==
        CASE by = "_gather_for_scalar_indexing"   -> GatherScalarWindows(a, idx)
          [] by = "_gather_for_multidim_indexing" -> GatherMultidimWindows(a, idx)
          [] by = "_gather_with_batch_dims"       -> GatherBatchWindows(a, idx)
  IN  [by |-> by, windows |-> windows,
       out |-> IF \A w \in windows :
                    0 <= w.start /\ w.start <= w.extent - w.size
               THEN r.out
               ELSE Crash("InvalidArgumentError", by)]

\* The elements of the index arrays of the gather requests.
GatherIndexValues == {ToWide(-1), ToWide(0), ToWide(1), ToWide(2), Wide(32768, 0)}

\* Scatter with index vectors outside the operand.  _sparse_scatter hands
\* scatter_indices to TensorFlow as it receives them.  tf.gather_nd (line
\* 917) and the segment reductions (line 928) fail on the CPU for an index
\* outside the operand and skip it on the GPU; a segment reduction skips a
\* negative index on both.
ScatterInside(a, i) ==
  \A j \in DOMAIN a.scatter_indices.vecs[i] :
    LET x == a.scatter_indices.vecs[i][j]
        extent == a.operand.shape[
                    a.dimension_numbers.scatter_dims_to_operand_dims[j] + 1]
    IN  0 <= x /\ x < extent

\* The request without the updates whose index vector is outside the
\* operand (rank-1 updates).
ScatterWithoutStray(a) ==
  LET kept == SortedSeq({i \in DOMAIN a.scatter_indices.vecs : ScatterInside(a, i)})
  IN  [a EXCEPT !.scatter_indices.vecs = [i \in DOMAIN kept |-> @[kept[i]]],
                !.updates = Tensor(<<Len(kept)>>,
                                   LAMBDA q : a.updates.at[<<kept[q[1] + 1] - 1>>])]

ScatterStrayFails(a, device) ==
  LET unique == a.unique_indices \/ ~a.scatter_indices.batched
  IN  /\ device = "cpu"
      /\ \/ unique
         \/ \E i \in DOMAIN a.scatter_indices.vecs :
              a.scatter_indices.vecs[i][1] >= a.operand.shape[1]

sparse_scatter_stray(a, device) ==
  LET unique == a.unique_indices \/ ~a.scatter_indices.batched
      b == ScatterWithoutStray(a)
  IN  [indices |-> a.scatter_indices.vecs,
       entered |-> TRUE,
       out |-> IF ScatterStrayFails(a, device)
               THEN Crash("InvalidArgumentError",
                          IF unique THEN "tf.gather_nd"
                          ELSE "unsorted_segment_op")
               ELSE IF b.scatter_indices.vecs = <<>> THEN Ok(a.operand)
               ELSE sparse_scatter(
                      b, SortedSeq(1..Len(b.scatter_indices.vecs))).out]

(***************************************************************************)
(* The calls of _conv_transpose_pads_to_padtype: lists of 0..2 kernel      *)
(* extents, of 0..2 operand dilations (the strides of the transpose        *)
(* convolution) and of 0..2 padding pairs, of equal length or not.         *)
(***************************************************************************)
SeqsUpTo2(S) == UNION {[1..m -> S] : m \in 0..2}

TransposePadPairs == (0..MaxTransposePad) \X (0..MaxTransposePad)

(***************************************************************************)
(* The state machine.                                                      *)
(***************************************************************************)
NoArgs == [none |-> TRUE]

NoRes == [kind |-> "none"]

Init == pc = "idle" /\ op = "none" /\ args = NoArgs /\ res = NoRes

Return ==
  /\ pc = "done"
  /\ pc' = "idle" /\ op' = "none" /\ args' = NoArgs /\ res' = NoRes

\* tf_impl_no_xla[lax.dynamic_slice_p]
DynamicSlice ==
  /\ pc = "idle"
  /\ \E a \in DynamicSliceArgs :
       /\ args' = a
       /\ res' = _dynamic_slice(a)
  /\ pc' = "done" /\ op' = "dynamic_slice"

\* pads_to_padtype, as called by the convolution and reduce_window lowerings.
PadsToPadtype ==
  /\ pc = "idle"
  /\ \E a \in PadsToPadtypeArgs :
       /\ args' = a
       /\ res' = Ok(pads_to_padtype(a.in_shape, a.window_shape,
                                    a.window_strides, a.padding))
  /\ pc' = "done" /\ op' = "pads_to_padtype"

\* tf_impl_no_xla[lax.gather_p]
Gather ==
  /\ pc = "idle"
  /\ \E op_shape \in Shapes(MaxOpRank), batch_shape \in Shapes(MaxBatchRank) :
       \E slice_sizes \in [1..Len(op_shape) -> 0..2] :
         /\ WellFormedSliceSizes(op_shape, slice_sizes)
         /\ \E coll \in SUBSET (0..(Len(op_shape) - 1)) :
              /\ WellFormedCollapsed(slice_sizes, coll)
              /\ \E off \in SUBSET (0..(Len(op_shape) - Cardinality(coll)
                                          + Len(batch_shape) - 1)) :
                   /\ WellFormedOffsetDims(op_shape, coll, off)
                   /\ \E sim \in UNION {InjectiveSeqs(0..(Len(op_shape) - 1), m) :
                                          m \in 0..Len(op_shape)},
                         mode \in {"CLIP", "FILL_OR_DROP", "PROMISE_IN_BOUNDS"},
                         eager \in BOOLEAN :
                        LET a == GatherArgs(op_shape, batch_shape, slice_sizes,
                                            coll, sim, off, mode, eager)
                        IN  args' = a /\ res' = _gather(a)
  /\ pc' = "done" /\ op' = "gather"

\* tf_impl_no_xla[lax.conv_general_dilated_p]: 1-D requests with every
\* feature combination; 2-D requests with unit batch_group_count and no
\* preferred_element_type; requests of spatial rank 0 and 3.
ConvGeneralDilated ==
  /\ pc = "idle"
  /\ \/ \E x \in ConvAxes, ch \in ConvChannels, bgc \in 1..2,
           pet \in {"None", "float32", "float64"} :
          LET a == ConvRequest(<<x>>, ch, bgc, pet)
          IN  args' = a /\ res' = _conv_general_dilated(a)
     \/ \E x \in ConvAxes, y \in ConvAxes2, ch \in ConvChannels :
          LET a == ConvRequest(<<x, y>>, ch, 1, "None")
          IN  args' = a /\ res' = _conv_general_dilated(a)
     \/ \E axes \in {<<>>, <<UnitAxis, UnitAxis, UnitAxis>>},
           ch \in ConvChannels, bgc \in 1..2,
           pet \in {"None", "float32", "float64"} :
          LET a == ConvRequest(axes, ch, bgc, pet)
          IN  args' = a /\ res' = _conv_general_dilated(a)
  /\ pc' = "done" /\ op' = "conv_general_dilated"

\* tf_impl_no_xla[lax.scatter_p], [lax.scatter_add_p], [lax.scatter_mul_p],
\* [lax.scatter_min_p], [lax.scatter_max_p] on a rank-1 int32 operand of
\* extent 1, 2 or MaxOperandLen, each update one element.
ScatterVector ==
  /\ pc = "idle"
  /\ \E prim \in ScatterPrims, len \in {1, 2, MaxOperandLen},
        n \in ScatterCounts,
        unique_indices \in BOOLEAN, batched \in BOOLEAN :
       /\ batched \/ n = 1
       /\ \E operand \in ScatterOperands(<<len>>),
             ids \in [1..n -> 0..(len - 1)],
             vals \in [1..n -> ScatterUpdateVals] :
            LET a == ScatterRequest(
                       prim, "int32", operand, batched,
                       [i \in 1..n |-> <<ids[i]>>],
                       IF batched
                       THEN Tensor(<<n>>, LAMBDA q : vals[q[1] + 1])
                       ELSE Tensor(<<>>, LAMBDA q : vals[1]),
                       <<>>, <<0>>, <<0>>, unique_indices, "PROMISE_IN_BOUNDS")
            IN  args' = a
  /\ pc' = "lowered" /\ op' = "scatter" /\ res' = NoRes

\* The scatters on a 2 x 2 int32 operand: one scattered axis (axis 0 or 1,
\* each update a row of two elements, the update array holding its window
\* axis last or first), or both axes scattered (each update one element).
ScatterMatrix ==
  /\ pc = "idle"
  /\ \E prim \in ScatterPrims, operand \in ScatterOperands(<<2, 2>>),
        n \in 1..2, unique_indices \in BOOLEAN, batched \in BOOLEAN :
       /\ batched \/ n = 1
       /\   \/ \E sd \in {<<0>>, <<1>>}, ids \in [1..n -> 0..1],
                  window_first \in BOOLEAN :
                 /\ batched \/ window_first
                 /\ \E at \in [Positions(IF ~batched THEN <<2>>
                                          ELSE IF window_first THEN <<2, n>>
                                          ELSE <<n, 2>>) -> {1, 2}] :
                      LET a == ScatterRequest(
                                 prim, "int32", operand, batched,
                                 [i \in 1..n |-> <<ids[i]>>],
                                 [shape |-> IF ~batched THEN <<2>>
                                            ELSE IF window_first THEN <<2, n>>
                                            ELSE <<n, 2>>,
                                  at |-> at],
                                 IF window_first THEN <<0>> ELSE <<1>>,
                                 sd, sd, unique_indices, "PROMISE_IN_BOUNDS")
                      IN  args' = a
            \/ \E ids \in [1..n -> Positions(<<2, 2>>)],
                  vals \in [1..n -> {1, 2}] :
                 LET a == ScatterRequest(
                            prim, "int32", operand, batched, ids,
                            IF batched
                            THEN Tensor(<<n>>, LAMBDA q : vals[q[1] + 1])
                            ELSE Tensor(<<>>, LAMBDA q : vals[1]),
                            <<>>, <<0, 1>>, <<0, 1>>, unique_indices,
                            "PROMISE_IN_BOUNDS")
                 IN  args' = a
  /\ pc' = "lowered" /\ op' = "scatter" /\ res' = NoRes

\* The same lowerings over the element types, out-of-bounds modes and
\* dimension numbers: a rank-1 operand [0, 1] and two updates, each either
\* one element (inserted_window_dims = scatter_dims_to_operand_dims = (0,))
\* or a window of extent 1 (inserted_window_dims = ()).
ScatterEntry ==
  /\ pc = "idle"
  /\ \E prim \in ScatterPrims,
        dtype \in {"int32", "bool", "complex64", "complex128"},
        mode \in {"PROMISE_IN_BOUNDS", "CLIP", "FILL_OR_DROP"},
        unique_indices \in BOOLEAN, inserted \in BOOLEAN,
        ids \in [1..2 -> 0..1] :
       LET operand == Tensor(<<2>>, LAMBDA q : q[1])
           a == ScatterRequest(
                  prim, dtype, operand, TRUE,
                  [i \in 1..2 |-> <<ids[i]>>],
                  IF inserted THEN Tensor(<<2>>, LAMBDA q : q[1] + 1)
                  ELSE Tensor(<<2, 1>>, LAMBDA q : q[1] + 1),
                  IF inserted THEN <<>> ELSE <<1>>,
                  IF inserted THEN <<0>> ELSE <<>>,
                  <<0>>, unique_indices, mode)
       IN  args' = a
  /\ pc' = "lowered" /\ op' = "scatter" /\ res' = NoRes

\* The converted scatter runs: the entry checks and the strategy are those
\* of sparse_scatter; the device takes the updates of
\* tf.tensor_scatter_nd_update in an order of its own.
ScatterRun ==
  /\ pc = "lowered" /\ op = "scatter"
  /\ \E order \in Orders(Len(args.scatter_indices.vecs)) :
       res' = sparse_scatter(args, order)
  /\ pc' = "done"
  /\ UNCHANGED <<op, args>>

\* tf_impl_no_xla[lax.dot_general_p]
DotGeneral ==
  /\ pc = "idle"
  /\ \E nl \in 0..MaxDotRank, nr \in 0..MaxDotRank :
       \E np \in 0..Min(nl, nr) :
         \E lhs_shape \in [1..nl -> {4, 5}],
            la \in InjectiveSeqs(0..(nl - 1), np),
            ra \in InjectiveSeqs(0..(nr - 1), np),
            nc \in 0..np, rhs_dtype \in {"float32", "int32"} :
           LET a == DotRequest(lhs_shape, nr, la, ra, nc, rhs_dtype)
           IN  args' = a /\ res' = _dot_general(a)
  /\ pc' = "done" /\ op' = "dot_general"

\* tf_impl_no_xla[lax.reduce_window_sum_p] and [lax.reduce_window_max_p]
ReduceWindow ==
  /\ pc = "idle"
  /\ \E name \in {"reduce_window_sum", "reduce_window_max"},
        dtype \in {"float32", "int32", "bool", "complex64"},
        rank \in 0..MaxWindowRank, dil \in WindowDilations :
       \E axes \in [1..rank -> WindowAxes] :
         LET a == ReduceWindowRequest(name, dtype, axes, dil)
         IN  args' = a /\ res' = _reduce_window(a)
  /\ pc' = "done" /\ op' = "reduce_window"

\* tf_impl_no_xla[lax.pad_p]
Pad ==
  /\ pc = "idle"
  /\ \/ \E x \in PadAxes1 :
          LET a == PadRequest(<<x>>)
          IN  args' = a /\ res' = _pad(a)
     \/ \E x \in PadAxes1, y \in PadAxes2 :
          LET a == PadRequest(<<x, y>>)
          IN  args' = a /\ res' = _pad(a)
  /\ pc' = "done" /\ op' = "pad"

\* tf_impl_no_xla[lax.dynamic_update_slice_p]: every rank-1 operand up to
\* MaxUpdateLen with every update not longer than it, and a 2 x 3 operand
\* with every update shape, each update holding one 0 or none.
DynamicUpdateSlice ==
  /\ pc = "idle"
  /\ \/ \E n \in 0..MaxUpdateLen :
          \E k \in 0..n :
            \E at \in [Positions(<<k>>) -> UpdateVals],
               s \in UpdateStartValues(n) :
              LET a == UpdateRequest(<<n>>, [shape |-> <<k>>, at |-> at], <<s>>)
              IN  args' = a /\ res' = _dynamic_update_slice(a)
     \/ \E k1 \in 0..2, k2 \in 0..3, z \in 0..6 :
          \E s1 \in UpdateStartValues(2), s2 \in UpdateStartValues(3) :
            LET a == UpdateRequest(
                       <<2, 3>>,
                       Tensor(<<k1, k2>>,
                              LAMBDA q : IF FlatId(<<k1, k2>>, q) = z THEN 0
                                         ELSE 9),
                       <<s1, s2>>)
            IN  args' = a /\ res' = _dynamic_update_slice(a)
  /\ pc' = "done" /\ op' = "dynamic_update_slice"

\* tf_impl_no_xla[lax.gather_p] on the requests a strategy accepts, with the
\* elements of the index array.
GatherIndices ==
  /\ pc = "idle"
  /\ \E op_shape \in Shapes(MaxOpRank), batch_shape \in Shapes(MaxBatchRank) :
       \E slice_sizes \in [1..Len(op_shape) -> 0..2] :
         /\ WellFormedSliceSizes(op_shape, slice_sizes)
         /\ \E coll \in SUBSET (0..(Len(op_shape) - 1)) :
              /\ WellFormedCollapsed(slice_sizes, coll)
              /\ \E off \in SUBSET (0..(Len(op_shape) - Cardinality(coll)
                                          + Len(batch_shape) - 1)) :
                   /\ WellFormedOffsetDims(op_shape, coll, off)
                   /\ \E sim \in UNION {InjectiveSeqs(0..(Len(op_shape) - 1), m) :
                                          m \in 0..Len(op_shape)},
                         mode \in {"CLIP", "PROMISE_IN_BOUNDS"} :
                        LET a == GatherArgs(op_shape, batch_shape, slice_sizes,
                                            coll, sim, off, mode, TRUE)
                        IN  /\ _gather(a).out.kind = "ok"
                            /\ \E idx \in [Positions(a.start_indices_shape)
                                             -> GatherIndexValues] :
                                 /\ args' = [request |-> a, start_indices |-> idx]
                                 /\ res' = GatherIndexed(a, idx)
  /\ pc' = "done" /\ op' = "gather_indices"

\* The scatters of two updates into the rank-1 int32 operand [0, 1], at
\* least one index outside it, that reach a strategy.
ScatterStray ==
  /\ pc = "idle"
  /\ \E prim \in ScatterPrims, unique_indices \in BOOLEAN,
        ids \in [1..2 -> -1..2] :
       /\ \E i \in 1..2 : ids[i] \notin 0..1
       /\ unique_indices \/ SegmentOpOf(prim) # "None"
       /\ args' = ScatterRequest(
                    prim, "int32", Tensor(<<2>>, LAMBDA q : q[1]), TRUE,
                    [i \in 1..2 |-> <<ids[i]>>],
                    Tensor(<<2>>, LAMBDA q : q[1] + 1),
                    <<>>, <<0>>, <<0>>, unique_indices, "PROMISE_IN_BOUNDS")
  /\ pc' = "lowered" /\ op' = "scatter_stray" /\ res' = NoRes

\* The converted scatter runs on a device.
ScatterStrayRun ==
  /\ pc = "lowered" /\ op = "scatter_stray"
  /\ \E device \in {"cpu", "gpu"} :
       res' = sparse_scatter_stray(args, device)
  /\ pc' = "done"
  /\ UNCHANGED <<op, args>>

\* _conv_transpose_pads_to_padtype, as called by the convolution lowering.
ConvTransposePadsToPadtype ==
  /\ pc = "idle"
  /\ \E kernel_sdims \in SeqsUpTo2(1..MaxTransposeKernel),
        lhs_dilation \in SeqsUpTo2(1..MaxTransposeKernel),
        padding \in SeqsUpTo2(TransposePadPairs) :
       /\ args' = [kernel_sdims |-> kernel_sdims, lhs_dilation |-> lhs_dilation,
                   padding |-> padding]
       /\ res' = _conv_transpose_pads_to_padtype(kernel_sdims, lhs_dilation,
                                                 padding)
  /\ pc' = "done" /\ op' = "_conv_transpose_pads_to_padtype"

NextSlice == DynamicSlice \/ Return

SpecSlice == Init /\ [][NextSlice]_vars

NextPadtype == PadsToPadtype \/ Return

SpecPadtype == Init /\ [][NextPadtype]_vars

NextGather == Gather \/ Return

SpecGather == Init /\ [][NextGather]_vars

NextConv == ConvGeneralDilated \/ Return

SpecConv == Init /\ [][NextConv]_vars

NextScatter ==
  ScatterVector \/ ScatterMatrix \/ ScatterEntry \/ ScatterRun \/ Return

SpecScatter == Init /\ [][NextScatter]_vars

NextDot == DotGeneral \/ Return

SpecDot == Init /\ [][NextDot]_vars

NextWindow == ReduceWindow \/ Return

SpecWindow == Init /\ [][NextWindow]_vars

NextPad == Pad \/ Return

SpecPad == Init /\ [][NextPad]_vars

NextUpdate == DynamicUpdateSlice \/ Return

SpecUpdate == Init /\ [][NextUpdate]_vars

NextClamp ==
  \/ DynamicSlice \/ DynamicUpdateSlice \/ GatherIndices
  \/ ScatterStray \/ ScatterStrayRun \/ Return

SpecClamp == Init /\ [][NextClamp]_vars

NextTranspose == ConvTransposePadsToPadtype \/ Return

SpecTranspose == Init /\ [][NextTranspose]_vars

(***************************************************************************)
(* C1: for every dynamic-slice on an axis of length dim_len with slice     *)
(* size k (0 <= k <= dim_len) and every start index s representable as a   *)
(* signed 32-bit integer, the effective start is                           *)
(* max(0, min(s, dim_len - k)), the elements returned are exactly those at *)
(* indices [start, start + k), and no index outside [0, dim_len) is read.  *)
(***************************************************************************)
C1_ClampedSlice ==
  (pc = "done" /\ op = "dynamic_slice") =>
    \A d \in DOMAIN args.operand_shape :
      LET dim_len == args.operand_shape[d]
          k       == args.slice_sizes[d]
          s       == args.start_indices[d]
      IN  IsInt32(s) =>
            LET start == IF Int32Value(s) <= dim_len - k
                           THEN (IF Int32Value(s) >= 0 THEN Int32Value(s) ELSE 0)
                           ELSE (IF dim_len - k >= 0 THEN dim_len - k ELSE 0)
            IN  /\ res.start[d] = start
                /\ res.out.kind = "ok"
                /\ Len(res.out.val[d]) = k
                /\ \A j \in 1..k : res.out.val[d][j] = start + j - 1
                /\ \A j \in 1..k : res.out.val[d][j] \in 0..(dim_len - 1)

\* Scenario 3: length 10, start 8, size 5: the start is clamped to 5 and the
\* elements at indices 5..9 are returned.
C1_Witness ==
  /\ pc = "done" /\ op = "dynamic_slice"
  /\ args.operand_shape = <<10>> /\ args.slice_sizes = <<5>>
  /\ args.start_indices = <<ToWide(8)>>
  /\ res.start = <<5>>
  /\ res.out = Ok(<<(<<5, 6, 7, 8, 9>>)>>)

(***************************************************************************)
(* C2 (as amended): pads_to_padtype returns VALID when the padding is all  *)
(* zero; returns SAME when the padding is the canonical SAME padding       *)
(* (total max(0, (ceil(in/stride) - 1) * stride + window - in) per axis,   *)
(* low half rounded down) and that padding is not all zero; and returns    *)
(* EXPLICIT for every other padding list of the same length.               *)
(***************************************************************************)
IsValidPadding(a) == \A d \in DOMAIN a.padding : a.padding[d] = <<0, 0>>

IsSamePadding(a) ==
  \A d \in DOMAIN a.padding :
    LET n     == a.in_shape[d]
        st    == a.window_strides[d]
        out   == IF n % st = 0 THEN n \div st ELSE n \div st + 1
        need  == (out - 1) * st + a.window_shape[d] - n
        total == IF need > 0 THEN need ELSE 0
    IN  /\ a.padding[d][1] + a.padding[d][2] = total
        /\ a.padding[d][1] <= a.padding[d][2]
        /\ a.padding[d][2] <= a.padding[d][1] + 1

C2_PadtypeValidFirst ==
  (pc = "done" /\ op = "pads_to_padtype") =>
    /\ IsValidPadding(args) => res.val = "VALID"
    /\ (IsSamePadding(args) /\ ~IsValidPadding(args)) => res.val = "SAME"
    /\ (~IsSamePadding(args) /\ ~IsValidPadding(args)) => res.val = "EXPLICIT"

\* A SAME padding that is not all zero is classified SAME (for instance
\* input 3, window 3, stride 2 on both axes, padding (1, 1)).
C2_Witness ==
  /\ pc = "done" /\ op = "pads_to_padtype"
  /\ Len(args.padding) = 2
  /\ IsSamePadding(args) /\ ~IsValidPadding(args)
  /\ res.val = "SAME"

\* C2 as stated: whenever the padding equals the canonical SAME padding the
\* result is SAME (and VALID for the all-zero padding, EXPLICIT otherwise).
C2_Original ==
  (pc = "done" /\ op = "pads_to_padtype") =>
    /\ IsValidPadding(args) => res.val = "VALID"
    /\ IsSamePadding(args) => res.val = "SAME"
    /\ (~IsSamePadding(args) /\ ~IsValidPadding(args)) => res.val = "EXPLICIT"

(***************************************************************************)
(* C3 (as amended): for every well-formed gather request that is not in    *)
(* fill mode, the scalar-indexing and the batched-indexing preconditions   *)
(* never both accept it, so at most two of the three preconditions accept; *)
(* scalar with multi-dimensional indexing, or multi-dimensional with       *)
(* batched indexing, may both accept.                                      *)
(***************************************************************************)
GatherAccepting(a) ==
  {n \in {"scalar", "multidim", "batch"} :
     (CASE n = "scalar"   -> _pre_gather_for_scalar_indexing(a)
        [] n = "multidim" -> _pre_gather_for_multidim_indexing(a)
        [] n = "batch"    -> _pre_gather_with_batch_dims(a)).kind = "accept"}

C3_ScalarBatchExclusive ==
  (pc = "done" /\ op = "gather" /\ args.mode # "FILL_OR_DROP") =>
    /\ ~({"scalar", "batch"} \subseteq GatherAccepting(args))
    /\ Cardinality(GatherAccepting(args)) <= 2

\* A request both the scalar and the multi-dimensional precondition accept
\* (operand (2,), one index vector of length 1), lowered by the first.
C3_Witness ==
  /\ pc = "done" /\ op = "gather" /\ args.mode # "FILL_OR_DROP"
  /\ GatherAccepting(args) = {"scalar", "multidim"}
  /\ res.out.kind = "ok"
  /\ res.out.val.by = "_gather_for_scalar_indexing"

\* C3 as stated: at most one of the three strategy preconditions accepts.
C3_Original ==
  (pc = "done" /\ op = "gather" /\ args.mode # "FILL_OR_DROP") =>
    Cardinality(GatherAccepting(args)) <= 1

(***************************************************************************)
(* C4: for a gather that is not in fill mode the strategies are tried in   *)
(* the order scalar, multi-dimensional, batched; the result of the first   *)
(* strategy that accepts is returned and no later strategy is consulted;   *)
(* no strategy ends in an exception other than its named rejection; and    *)
(* when all three reject, the lowering fails with one gather error that    *)
(* lists three (strategy, reason) entries in that order.                   *)
(***************************************************************************)
PreOf(i, a) ==
  CASE i = 1 -> _pre_gather_for_scalar_indexing(a)
    [] i = 2 -> _pre_gather_for_multidim_indexing(a)
    [] i = 3 -> _pre_gather_with_batch_dims(a)

C4_OrderedChain ==
  (pc = "done" /\ op = "gather" /\ args.mode # "FILL_OR_DROP") =>
    LET accepting == {i \in 1..3 : PreOf(i, args).kind = "accept"}
    IN  /\ \A i \in 1..3 : PreOf(i, args).kind \in {"accept", "ValueError"}
        /\ res.out.kind \in {"ok", "NotImplementedError"}
        /\ \E i \in 0..3 : res.tried = SubSeq(GatherFns, 1, i)
        /\ accepting # {} =>
             LET first == CHOOSE i \in accepting : \A j \in accepting : i <= j
             IN  /\ res.out.kind = "ok"
                 /\ res.out.val.by = GatherFns[first]
                 /\ res.tried = SubSeq(GatherFns, 1, first)
        /\ accepting = {} =>
             /\ res.out.kind = "NotImplementedError"
             /\ res.out.name = "gather"
             /\ Len(res.out.msg) = 3
             /\ \A i \in 1..3 : res.out.msg[i][1] = GatherFns[i]

(***************************************************************************)
(* C5: for every convolution that passes validation, the lowering returns  *)
(* the all-zero tensor of the expected output shape exactly when the       *)
(* dilated kernel extent (k-1)*r+1 exceeds the (possibly padded) input     *)
(* extent on at least one spatial axis and the padding scheme is not SAME. *)
(* The padded extent of an axis is the input extent plus the explicit      *)
(* padding (low + high) the request asks for on that axis.                 *)
(***************************************************************************)
ConvIsTranspose(a) == \E d \in 1..a.nsd : a.lhs_dilation[d] # 1

ConvDilatedKernel(a) ==
  [d \in 1..a.nsd |-> (a.rhs_spatial[d] - 1) * a.rhs_dilation[d] + 1]

ConvPadCall(a) ==
  [in_shape |-> a.lhs_spatial, window_shape |-> ConvDilatedKernel(a),
   window_strides |-> a.window_strides, padding |-> a.padding]

ConvIsExplicit(a) ==
  /\ ~ConvIsTranspose(a)
  /\ ~IsValidPadding(ConvPadCall(a))
  /\ ~IsSamePadding(ConvPadCall(a))

ConvPaddedExtent(a, d) ==
  IF ConvIsExplicit(a)
  THEN a.lhs_spatial[d] + a.padding[d][1] + a.padding[d][2]
  ELSE a.lhs_spatial[d]

ConvKernelExceeds(a) ==
  \E d \in 1..a.nsd : ConvDilatedKernel(a)[d] > ConvPaddedExtent(a, d)

C5_ZeroShortcut ==
  (pc = "done" /\ op = "conv_general_dilated" /\ res.out.kind = "ok") =>
    /\ res.out.val.zero
         <=> (ConvKernelExceeds(args) /\ res.padding_type # "SAME")
    /\ res.out.val.zero => res.out.val.shape = ConvOutShape(args)

(***************************************************************************)
(* C9: convolution validation accepts a request exactly when the spatial   *)
(* rank is 1 or 2, feature_group_count is 1 or the convolution is          *)
(* depthwise, at most one of transpose / atrous / depthwise holds or       *)
(* exactly depthwise and atrous hold, batch_group_count is 1, and the      *)
(* requested output element type is absent or the input's; every other     *)
(* request fails with a conv_general_dilated unsupported error.            *)
(***************************************************************************)
ConvIsAtrous(a) == \E d \in 1..a.nsd : a.rhs_dilation[d] # 1

ConvIsDepthwise(a) ==
  a.C = a.feature_group_count /\ a.feature_group_count > 1

ConvFlagCount(a) ==
  (IF ConvIsTranspose(a) THEN 1 ELSE 0) + (IF ConvIsAtrous(a) THEN 1 ELSE 0)
    + (IF ConvIsDepthwise(a) THEN 1 ELSE 0)

ConvSupported(a) ==
  /\ a.nsd \in {1, 2}
  /\ a.feature_group_count = 1 \/ ConvIsDepthwise(a)
  /\ \/ ConvFlagCount(a) <= 1
     \/ ConvIsDepthwise(a) /\ ConvIsAtrous(a) /\ ~ConvIsTranspose(a)
  /\ a.batch_group_count = 1
  /\ a.preferred_element_type \in {"None", a.lhs_dtype}

IsConvError(r) ==
  r.kind = "NotImplementedError" /\ r.name = "conv_general_dilated"

C9_ConvValidation ==
  (pc = "done" /\ op = "conv_general_dilated") =>
    /\ ~ConvSupported(args) => IsConvError(res.out)
    /\ ConvSupported(args) => ~IsConvError(res.out)

(***************************************************************************)
(* C10: for every accepted 1-D convolution, the TensorFlow call the        *)
(* lowering makes (operand, kernel, strides, padding scheme, dilations)    *)
(* and its result are those of lowering the 2-D convolution with a unit    *)
(* spatial axis appended (stride 1, dilation 1, padding (0, 0)), that axis *)
(* squeezed from the result.                                               *)
(***************************************************************************)
SqueezeLast(r) == [r EXCEPT !.shape = SubSeq(@, 1, Len(@) - 1)]

C10_Conv1dAs2d ==
  (pc = "done" /\ op = "conv_general_dilated" /\ args.nsd = 1
     /\ res.out.kind = "ok") =>
    LET two == _conv_general_dilated(Lift2D(args))
    IN  /\ two.out.kind = "ok"
        /\ two.out.val.shape[4] = 1
        /\ SqueezeLast(two.out.val) = res.out.val

(***************************************************************************)
(* Scatter as lax defines it, for inserted_window_dims equal to            *)
(* scatter_dims_to_operand_dims: the update at position u of the update    *)
(* array goes to the operand position whose scattered axes hold the index  *)
(* vector of u's batch coordinate and whose other axes hold u's window     *)
(* coordinates.                                                            *)
(***************************************************************************)
ScatterTarget(a, u) ==
  LET ud == a.dimension_numbers.update_window_dims
      sd == a.dimension_numbers.scatter_dims_to_operand_dims
      batch_axes == SortedSeq({x \in 0..(Len(u) - 1) : x \notin Range(ud)})
      i == IF a.scatter_indices.batched THEN u[batch_axes[1] + 1] + 1 ELSE 1
      other == SortedSeq({x \in 0..(Len(a.operand.shape) - 1) :
                            x \notin Range(sd)})
  IN  [d \in DOMAIN a.operand.shape |->
         IF \E k \in DOMAIN sd : sd[k] + 1 = d
         THEN a.scatter_indices.vecs[i][CHOOSE k \in DOMAIN sd : sd[k] + 1 = d]
         ELSE u[ud[CHOOSE k \in DOMAIN other : other[k] + 1 = d] + 1]]

ScatterHits(a, q) ==
  {u \in Positions(a.updates.shape) : ScatterTarget(a, u) = q}

RECURSIVE SumOver(_, _)
SumOver(S, t) ==
  IF S = {} THEN 0
  ELSE LET u == CHOOSE x \in S : TRUE
       IN  t.at[u] + SumOver(S \ {u}, t)

ScatterReduced(a, q) ==
  LET hits == ScatterHits(a, q)
      vals == {a.operand.at[q]} \cup {a.updates.at[u] : u \in hits}
  IN  CASE a.prim = "scatter_add" -> a.operand.at[q] + SumOver(hits, a.updates)
        [] a.prim = "scatter_min" -> CHOOSE v \in vals : \A w \in vals : v <= w
        [] a.prim = "scatter_max" -> CHOOSE v \in vals : \A w \in vals : w <= v

\* The request with its (index, update) pairs listed in the order perm.
ScatterPermuted(a, perm) ==
  LET ud == a.dimension_numbers.update_window_dims
      batch_axis == CHOOSE x \in 0..(Len(a.updates.shape) - 1) :
                      x \notin Range(ud)
  IN  [a EXCEPT
         !.scatter_indices.vecs = [i \in DOMAIN @ |-> @[perm[i]]],
         !.updates.at = [u \in DOMAIN @ |->
                           @[[u EXCEPT ![batch_axis + 1] = perm[@ + 1] - 1]]]]

ScatterDepth(a) == Len(a.scatter_indices.vecs[1])

ScatterCount(a) == Len(a.scatter_indices.vecs)

IsScatterError(r) ==
  r.kind = "NotImplementedError"
    /\ r.name = "scatter_(update/add/multiply/min/max)"

(***************************************************************************)
(* C6: for scatter-add, scatter-min and scatter-max with index depth 1 and *)
(* indices not asserted unique, the result equals the operand combined     *)
(* with the per-index reduction of the updates, is the same whatever order *)
(* the device takes the updates in, and is the same for every permutation  *)
(* of the (index, update) pairs.                                           *)
(***************************************************************************)
C6_ScatterReduction ==
  (pc = "done" /\ op = "scatter" /\ res.out.kind = "ok"
     /\ args.prim \in {"scatter_add", "scatter_min", "scatter_max"}
     /\ ScatterDepth(args) = 1 /\ ~args.unique_indices) =>
    /\ res.out.val.shape = args.operand.shape
    /\ \A q \in Positions(args.operand.shape) :
         res.out.val.at[q] = ScatterReduced(args, q)
    /\ \A order \in Orders(ScatterCount(args)) :
         sparse_scatter(args, order).out = res.out
    /\ args.scatter_indices.batched =>
         \A perm \in Orders(ScatterCount(args)) :
           sparse_scatter(ScatterPermuted(args, perm), perm).out = res.out

\* Scatter-add on [0, 0, 0, 0] with indices [[0], [0], [2]] and updates
\* [1, 2, 3] gives [3, 0, 3, 0].
C6_Witness ==
  /\ pc = "done" /\ op = "scatter" /\ res.out.kind = "ok"
  /\ args.prim = "scatter_add" /\ ~args.unique_indices
  /\ args.operand.shape = <<4>>
  /\ \A q \in Positions(<<4>>) : args.operand.at[q] = 0
  /\ args.scatter_indices.batched
  /\ args.scatter_indices.vecs = << <<0>>, <<0>>, <<2>> >>
  /\ args.updates.at[<<0>>] = 1 /\ args.updates.at[<<1>>] = 2
  /\ args.updates.at[<<2>>] = 3
  /\ res.out.val.at[<<0>>] = 3 /\ res.out.val.at[<<1>>] = 0
  /\ res.out.val.at[<<2>>] = 3 /\ res.out.val.at[<<3>>] = 0

(***************************************************************************)
(* C7 (as amended): a scatter-replace whose index list contains duplicate  *)
(* indices and whose indices the caller has not asserted unique fails with *)
(* an unsupported error; when the caller has asserted them unique the      *)
(* duplicates go undetected and each position written holds one of the     *)
(* updates addressed to it.  A scatter of any kind whose indices are not   *)
(* guaranteed unique (neither asserted unique nor a single index vector)   *)
(* and whose index depth is greater than 1 fails as unsupported.           *)
(***************************************************************************)
ScatterHasDuplicates(a) ==
  \E i, k \in DOMAIN a.scatter_indices.vecs :
    i # k /\ a.scatter_indices.vecs[i] = a.scatter_indices.vecs[k]

ScatterGuaranteedUnique(a) ==
  a.unique_indices \/ ~a.scatter_indices.batched

C7_ReplaceDuplicates ==
  (pc = "done" /\ op = "scatter" /\ res.entered) =>
    /\ (args.prim = "scatter" /\ ScatterHasDuplicates(args)
          /\ ~args.unique_indices) => IsScatterError(res.out)
    /\ (args.prim = "scatter" /\ ScatterHasDuplicates(args)
          /\ args.unique_indices) =>
         /\ res.out.kind = "ok"
         /\ \A q \in Positions(args.operand.shape) :
              res.out.val.at[q] \in
                IF ScatterHits(args, q) = {} THEN {args.operand.at[q]}
                ELSE {args.updates.at[u] : u \in ScatterHits(args, q)}
    /\ (~ScatterGuaranteedUnique(args) /\ ScatterDepth(args) > 1)
         => IsScatterError(res.out)

\* A scatter-replace with a duplicated index, not asserted unique, is
\* refused.
C7_Witness ==
  /\ pc = "done" /\ op = "scatter" /\ res.entered
  /\ args.prim = "scatter" /\ ScatterHasDuplicates(args)
  /\ ~args.unique_indices
  /\ IsScatterError(res.out)

\* C7 as stated: every scatter-replace whose index list contains duplicate
\* indices fails with an unsupported error, and so does every scatter whose
\* indices are not guaranteed unique and whose index depth is greater
\* than 1.
C7_Original ==
  (pc = "done" /\ op = "scatter" /\ res.entered) =>
    /\ (args.prim = "scatter" /\ ScatterHasDuplicates(args))
         => IsScatterError(res.out)
    /\ (~ScatterGuaranteedUnique(args) /\ ScatterDepth(args) > 1)
         => IsScatterError(res.out)

(***************************************************************************)
(* C8: every scatter variant is rejected by the entry checks with an       *)
(* unsupported error exactly when inserted_window_dims differs from        *)
(* scatter_dims_to_operand_dims, or the out-of-bounds mode is not          *)
(* promise-in-bounds, or the operand element type is boolean or complex.   *)
(***************************************************************************)
ScatterMustReject(a) ==
  \/ a.dimension_numbers.inserted_window_dims
       # a.dimension_numbers.scatter_dims_to_operand_dims
  \/ a.mode # "PROMISE_IN_BOUNDS"
  \/ a.dtype \in {"bool", "complex64", "complex128"}

C8_ScatterEntryChecks ==
  (pc = "done" /\ op = "scatter") =>
    /\ ScatterMustReject(args) => (~res.entered /\ IsScatterError(res.out))
    /\ ~ScatterMustReject(args) => res.entered

(***************************************************************************)
(* C11: dot_general takes the matrix-multiply path exactly when the batch  *)
(* dimensions of both operands are the leading prefix 0..B-1 in the same   *)
(* order, the ranks differ by at most 1, each operand has 1 or 2 non-batch *)
(* axes, and the single contracting axis is the last axis of the left      *)
(* operand and the first non-batch axis of the right operand; every other  *)
(* request takes the einsum path.                                          *)
(***************************************************************************)
DotBatchCount(a) == Len(a.dimension_numbers[2][1])

DotMatmulPattern(a) ==
  LET b == DotBatchCount(a)
      nl == Len(a.lhs_shape)
      nr == Len(a.rhs_shape)
  IN  /\ Len(a.dimension_numbers[2][2]) = b
      /\ \A k \in 1..b : a.dimension_numbers[2][1][k] = k - 1
                           /\ a.dimension_numbers[2][2][k] = k - 1
      /\ nl - nr <= 1 /\ nr - nl <= 1
      /\ nl - b \in {1, 2} /\ nr - b \in {1, 2}
      /\ Len(a.dimension_numbers[1][1]) = 1
      /\ Len(a.dimension_numbers[1][2]) = 1
      /\ a.dimension_numbers[1][1][1] = nl - 1
      /\ a.dimension_numbers[1][2][1] = b

C11_MatmulPath ==
  (pc = "done" /\ op = "dot_general") =>
    /\ DotMatmulPattern(args) => res.path = "matmul"
    /\ ~DotMatmulPattern(args) => res.path = "einsum"

\* A (5,4) by (4,6) contraction over the axis of extent 4, no batch
\* dimensions, takes the matrix-multiply path and has result shape (5,6).
C11_Witness ==
  /\ pc = "done" /\ op = "dot_general"
  /\ args.lhs_shape = <<5, 4>> /\ args.rhs_shape = <<4, 6>>
  /\ args.dimension_numbers = << << <<1>>, <<0>> >>, << <<>>, <<>> >> >>
  /\ res.path = "matmul"
  /\ res.out = Ok(<<5, 6>>)

(***************************************************************************)
(* C12 (as amended): on the matrix-multiply path an operand with exactly   *)
(* one non-batch axis is expanded with a singleton axis before the         *)
(* multiply: the left operand gets a leading singleton among its non-batch *)
(* axes ([b] becomes [1, b]) and the right operand a trailing one ([b]     *)
(* becomes [b, 1]); after the multiply exactly the singleton axes          *)
(* introduced are removed, so the result shape is the batch dims followed  *)
(* by the left operand's free axis (if any) and the right operand's free   *)
(* axis (if any).                                                          *)
(***************************************************************************)
DotBatchShape(a) == SubSeq(a.lhs_shape, 1, DotBatchCount(a))

DotLhsIsVector(a) == Len(a.lhs_shape) - DotBatchCount(a) = 1

DotRhsIsVector(a) == Len(a.rhs_shape) - DotBatchCount(a) = 1

DotLast(shape) == shape[Len(shape)]

DotMatmulResult(a) ==
  /\ res.squeeze_idxs =
       (IF DotLhsIsVector(a) THEN {DotBatchCount(a)} ELSE {})
         \cup (IF DotRhsIsVector(a) THEN {DotBatchCount(a) + 1} ELSE {})
  /\ a.lhs_dtype = a.rhs_dtype =>
       res.out = Ok(DotBatchShape(a)
                      \o (IF DotLhsIsVector(a) THEN <<>>
                          ELSE <<a.lhs_shape[Len(a.lhs_shape) - 1]>>)
                      \o (IF DotRhsIsVector(a) THEN <<>>
                          ELSE <<DotLast(a.rhs_shape)>>))

C12_MatmulExpansion ==
  (pc = "done" /\ op = "dot_general" /\ res.path = "matmul") =>
    /\ res.lhs = IF DotLhsIsVector(args)
                 THEN DotBatchShape(args) \o <<1, DotLast(args.lhs_shape)>>
                 ELSE args.lhs_shape
    /\ res.rhs = IF DotRhsIsVector(args)
                 THEN DotBatchShape(args) \o <<DotLast(args.rhs_shape), 1>>
                 ELSE args.rhs_shape
    /\ DotMatmulResult(args)

\* A batched vector-by-vector contraction: both operands are expanded and
\* the result keeps the batch dims only.
C12_Witness ==
  /\ pc = "done" /\ op = "dot_general" /\ res.path = "matmul"
  /\ DotBatchCount(args) = 1
  /\ DotLhsIsVector(args) /\ DotRhsIsVector(args)
  /\ res.lhs = DotBatchShape(args) \o <<1, DotLast(args.lhs_shape)>>
  /\ res.rhs = DotBatchShape(args) \o <<DotLast(args.rhs_shape), 1>>
  /\ res.out = Ok(DotBatchShape(args))

\* C12 as stated: the left operand gets a trailing singleton and the right
\* operand a leading singleton among its non-batch axes.
C12_Original ==
  (pc = "done" /\ op = "dot_general" /\ res.path = "matmul") =>
    /\ res.lhs = IF DotLhsIsVector(args)
                 THEN DotBatchShape(args) \o <<DotLast(args.lhs_shape), 1>>
                 ELSE args.lhs_shape
    /\ res.rhs = IF DotRhsIsVector(args)
                 THEN DotBatchShape(args) \o <<1, DotLast(args.rhs_shape)>>
                 ELSE args.rhs_shape
    /\ DotMatmulResult(args)

(***************************************************************************)
(* C13: on the einsum path two axis positions of the operands carry the    *)
(* same label if and only if they are a contracting pair or a batch pair;  *)
(* the output labels are the batch labels in batch-pair order, then the    *)
(* left operand's non-unified labels in axis order, then the right         *)
(* operand's; no contracting label and no duplicate label is in the        *)
(* output.                                                                 *)
(***************************************************************************)
DotPaired(a, i, j) ==
  \/ \E k \in DOMAIN a.dimension_numbers[1][1] :
       a.dimension_numbers[1][1][k] = i /\ a.dimension_numbers[1][2][k] = j
  \/ \E k \in DOMAIN a.dimension_numbers[2][1] :
       a.dimension_numbers[2][1][k] = i /\ a.dimension_numbers[2][2][k] = j

DotFreeLabels(ids, paired) ==
  LET free == SortedSeq({i \in DOMAIN ids : (i - 1) \notin paired})
  IN  [k \in DOMAIN free |-> ids[free[k]]]

C13_EinsumLabels ==
  (pc = "done" /\ op = "dot_general" /\ res.path = "einsum") =>
    LET l == res.lhs_axis_ids
        r == res.rhs_axis_ids
        o == res.out_axis_ids
        dn == args.dimension_numbers
    IN  /\ Len(l) = Len(args.lhs_shape) /\ Len(r) = Len(args.rhs_shape)
        /\ \A i, j \in DOMAIN l : l[i] = l[j] => i = j
        /\ \A i, j \in DOMAIN r : r[i] = r[j] => i = j
        /\ \A i \in DOMAIN l, j \in DOMAIN r :
             l[i] = r[j] <=> DotPaired(args, i - 1, j - 1)
        /\ o = [k \in DOMAIN dn[2][1] |-> l[dn[2][1][k] + 1]]
                 \o DotFreeLabels(l, Range(dn[1][1]) \cup Range(dn[2][1]))
                 \o DotFreeLabels(r, Range(dn[1][2]) \cup Range(dn[2][2]))
        /\ \A k \in DOMAIN o, c \in DOMAIN dn[1][1] : o[k] # l[dn[1][1][c] + 1]
        /\ \A i, j \in DOMAIN o : o[i] = o[j] => i = j

\* An equation with a batch pair, a contracting pair and a free axis on
\* each side.
C13_Witness ==
  /\ pc = "done" /\ op = "dot_general" /\ res.path = "einsum"
  /\ res.out.kind = "ok"
  /\ Len(args.dimension_numbers[1][1]) = 1
  /\ Len(args.dimension_numbers[2][1]) = 1
  /\ Len(args.lhs_shape) = 3 /\ Len(args.rhs_shape) = 3
  /\ Len(res.out_axis_ids) = 3
  /\ res.out_axis_ids[1] = res.lhs_axis_ids[args.dimension_numbers[2][1][1] + 1]

(***************************************************************************)
(* C14: a sum or max window reduction is lowered to a pooling call exactly *)
(* when the element type is supported for the reduction, the spatial rank  *)
(* left after removing an inferred batch axis (window size 1 at axis 0)    *)
(* and an inferred channel axis (window size 1 at the last axis) is 1, 2   *)
(* or 3, every base and window dilation is 1, and the padding classifies   *)
(* as VALID or SAME; every other request fails with an error naming the    *)
(* reduction; on success the result has the operand's rank.                *)
(***************************************************************************)
WindowRank(a) == Len(a.operand_shape)

WindowSpatialRank(a) ==
  WindowRank(a)
    - (IF WindowRank(a) > 0 /\ a.window_dimensions[1] = 1 THEN 1 ELSE 0)
    - (IF WindowRank(a) > 0 /\ a.window_dimensions[WindowRank(a)] = 1
       THEN 1 ELSE 0)

WindowPadCall(a) ==
  [in_shape |-> a.operand_shape, window_shape |-> a.window_dimensions,
   window_strides |-> a.window_strides, padding |-> a.padding]

WindowSupported(a) ==
  /\ a.name = "reduce_window_max" => a.dtype \notin MaxPoolUnsupported
  /\ a.name = "reduce_window_sum" => a.dtype \in AvgPoolSupported
  /\ WindowSpatialRank(a) \in {1, 2, 3}
  /\ \A d \in 1..WindowRank(a) :
       a.base_dilation[d] = 1 /\ a.window_dilation[d] = 1
  /\ IsValidPadding(WindowPadCall(a)) \/ IsSamePadding(WindowPadCall(a))

C14_ReduceWindowPooling ==
  (pc = "done" /\ op = "reduce_window") =>
    /\ WindowSupported(args) =>
         /\ res.kind = "ok"
         /\ res.val.call \in {"tf.nn.max_pool", "tf.nn.avg_pool"}
         /\ Len(res.val.shape) = WindowRank(args)
    /\ ~WindowSupported(args) =>
         (res.kind = "NotImplementedError" /\ res.name = args.name)

(***************************************************************************)
(* C15: every failing lowering call ends in a structured error that names  *)
(* the operator (the NotImplementedError of _xla_disabled_error); no       *)
(* lowering failure surfaces as any other kind of error.                   *)
(***************************************************************************)
LoweringOutcome ==
  IF op \in {"reduce_window", "pads_to_padtype"} THEN res ELSE res.out

OperatorNames ==
  {"conv_general_dilated", "dot_general", "gather", "dynamic_slice",
   "reduce_window_sum", "reduce_window_max",
   "scatter_(update/add/multiply/min/max)"}

C15_StructuredFailures ==
  pc = "done" =>
    \/ LoweringOutcome.kind = "ok"
    \/ /\ LoweringOutcome.kind = "NotImplementedError"
       /\ LoweringOutcome.name \in OperatorNames

(***************************************************************************)
(* C16: for every operand whose axes have extent n >= 1 and every padding  *)
(* triple (low, high, interior) per axis, the result of pad has extent     *)
(* low + high + n + (n-1)*interior on each axis, holds operand element j   *)
(* at position low + j*(interior+1) whenever that position is inside the   *)
(* result, and holds the padding value at every other position.            *)
(***************************************************************************)
PadSource(a, p) ==
  {q \in Positions(a.operand.shape) :
     \A d \in DOMAIN p :
       p[d] = a.padding_config[d][1] + q[d] * (a.padding_config[d][3] + 1)}

ClampWindows ==
  CASE op = "dynamic_slice" ->
         {Window(args.operand_shape[d], res.start[d], args.slice_sizes[d]) :
            d \in DOMAIN args.operand_shape}
    [] op = "dynamic_update_slice" ->
         {Window(args.operand.shape[d], res.start[d], args.update.shape[d]) :
            d \in DOMAIN args.operand.shape}
    [] op = "gather_indices" -> res.windows
    [] op = "scatter_stray" ->
         {Window(args.operand.shape[
                   args.dimension_numbers.scatter_dims_to_operand_dims[j] + 1],
                 res.indices[i][j], 1) :
            i \in DOMAIN res.indices, j \in {1}}

C17_ClampEverywhere ==
  pc = "done" =>
    /\ res.out.kind = "ok"
    /\ \A w \in ClampWindows : 0 <= w.start /\ w.start <= w.extent - w.size

\* The part of C17 that holds: the slices and the gather strategies.
C17_ClampOutsideScatter == op # "scatter_stray" => C17_ClampEverywhere

(***************************************************************************)
(* C18: for every 1-D or 2-D convolution that is not a transpose           *)
(* convolution and whose padding classifies as EXPLICIT, the operand       *)
(* handed to the TensorFlow convolution has every spatial extent enlarged  *)
(* by low + high of its axis, batch and feature extents unchanged, and the *)
(* scheme handed over is VALID; the operand of a transpose convolution is  *)
(* handed over as it came.                                                 *)
(***************************************************************************)
\* The operand in TensorFlow's layout (N, H, W, C) with the given spatial
\* extents, a 1-D operand holding a unit W axis.
ConvOperand(a, spatial) ==
  <<a.N, spatial[1], IF a.nsd = 1 THEN 1 ELSE spatial[2], a.C>>

ConvCallsPrimitive ==
  /\ pc = "done" /\ op = "conv_general_dilated"
  /\ res.out.kind = "ok" /\ ~res.out.val.zero

C18_ExplicitPadding ==
  ConvCallsPrimitive =>
    /\ ConvIsExplicit(args) =>
         /\ res.out.val.input =
              ConvOperand(args, [d \in 1..args.nsd |->
                                   args.lhs_spatial[d] + args.padding[d][1]
                                     + args.padding[d][2]])
         /\ res.out.val.padding = "VALID"
    /\ ConvIsTranspose(args) =>
         res.out.val.input = ConvOperand(args, args.lhs_spatial)

\* The part of C18 that holds: the 2-D convolutions.
C18_ExplicitPadding2D ==
  (op = "conv_general_dilated" => args.nsd = 2) => C18_ExplicitPadding

(***************************************************************************)
(* C19: dynamic_update_slice returns a tensor of the operand's shape that  *)
(* equals the update at every position inside the window                   *)
(* [start, start + update_extent) on each axis, the start clamped into     *)
(* [0, extent - update_extent] (to max(0, min(s, extent - update_extent))  *)
(* for a start index s representable as a signed 32-bit integer), and      *)
(* equals the operand at every position outside the window, whatever the   *)
(* update holds, zero included.                                            *)
(***************************************************************************)
UpdateInWindow(start, shape, p) ==
  \A d \in DOMAIN p : start[d] <= p[d] /\ p[d] < start[d] + shape[d]

C19_UpdateSlice ==
  (pc = "done" /\ op = "dynamic_update_slice") =>
    LET operand == args.operand
        update == args.update
    IN  /\ \A d \in DOMAIN operand.shape :
             LET hi == operand.shape[d] - update.shape[d]
                 s == args.start_indices[d]
             IN  /\ res.start[d] \in 0..hi
                 /\ IsInt32(s) =>
                      res.start[d] = Max(0, Min(Int32Value(s), hi))
        /\ res.out.kind = "ok"
        /\ res.out.val.shape = operand.shape
        /\ DOMAIN res.out.val.at = Positions(operand.shape)
        /\ \A p \in Positions(operand.shape) :
             res.out.val.at[p] =
               IF UpdateInWindow(res.start, update.shape, p)
               THEN update.at[[d \in DOMAIN p |-> p[d] - res.start[d]]]
               ELSE operand.at[p]

\* A 2 x 2 update holding a zero written into the 2 x 3 operand at a start
\* past the end of the second axis: the window is moved back to columns
\* 1..2 and the zero replaces the operand's element.
C19_Witness ==
  /\ pc = "done" /\ op = "dynamic_update_slice"
  /\ args.operand.shape = <<2, 3>> /\ args.update.shape = <<2, 2>>
  /\ args.start_indices = <<ToWide(0), ToWide(3)>>
  /\ args.update.at[<<0, 1>>] = 0
  /\ res.start = <<0, 1>>
  /\ res.out.kind = "ok"
  /\ res.out.val.at[<<0, 2>>] = 0
  /\ res.out.val.at[<<0, 0>>] = args.operand.at[<<0, 0>>]
  /\ res.out.val.at[<<1, 1>>] = 9

(***************************************************************************)
(* C20: for kernel sizes k, strides s and padding pairs of equal length,   *)
(* _conv_transpose_pads_to_padtype returns VALID exactly when every pair   *)
(* is (k-1, s-1+max(k-s,0)); otherwise SAME exactly when every pair is     *)
(* (a, k+s-2-a) with a = k-1 if s > k-1 else ceil((k+s-2)/2); any other    *)
(* padding fails and none classifies as EXPLICIT; lists of unequal length  *)
(* fail whatever the pairs.                                                *)
(***************************************************************************)
TransposeValidPair(k, s) == <<k - 1, s - 1 + (IF k > s THEN k - s ELSE 0)>>

TransposeSamePair(k, s) ==
  LET a == IF s > k - 1 THEN k - 1 ELSE (k + s - 1) \div 2
  IN  <<a, k + s - 2 - a>>

TransposeAllValid(a) ==
  \A d \in DOMAIN a.padding :
    a.padding[d] = TransposeValidPair(a.kernel_sdims[d], a.lhs_dilation[d])

TransposeAllSame(a) ==
  \A d \in DOMAIN a.padding :
    a.padding[d] = TransposeSamePair(a.kernel_sdims[d], a.lhs_dilation[d])

C20_TransposePadtype ==
  (pc = "done" /\ op = "_conv_transpose_pads_to_padtype") =>
    IF Len(args.kernel_sdims) = Len(args.lhs_dilation)
         /\ Len(args.lhs_dilation) = Len(args.padding)
    THEN /\ res = Ok("VALID") <=> TransposeAllValid(args)
         /\ res = Ok("SAME") <=> (~TransposeAllValid(args)
                                    /\ TransposeAllSame(args))
         /\ (~TransposeAllValid(args) /\ ~TransposeAllSame(args))
              => res.kind = "ValueError"
         /\ res # Ok("EXPLICIT")
    ELSE res = ValueError("Found different lengths")

\* Kernel (3, 2) with strides (1, 2): the first axis tells VALID (2, 2) from
\* SAME (1, 1); on the second both schemes give (1, 1).  The padding
\* ((1, 1), (1, 1)) is SAME.
C20_Witness ==
  /\ pc = "done" /\ op = "_conv_transpose_pads_to_padtype"
  /\ args.kernel_sdims = <<3, 2>> /\ args.lhs_dilation = <<1, 2>>
  /\ args.padding = << <<1, 1>>, <<1, 1>> >>
  /\ res = Ok("SAME")

(***************************************************************************)
(* C21: the clamp casts the start index to a signed 32-bit integer first:  *)
(* for a start index s outside the signed 32-bit range the effective start *)
(* is the clamp of the int32 w congruent to s modulo 2^32, it lies in      *)
(* [0, extent - slice_size], and it can differ from                        *)
(* max(0, min(s, extent - slice_size)).                                    *)
(***************************************************************************)
\* The int32 congruent to the wide value modulo 2^32: the low limb is kept
\* and the high limb brought into -2^15 .. 2^15 - 1 by a multiple of 2^16.
WrappedInt32(w) ==
  (w.hi - Limb * ((w.hi + 32768) \div Limb)) * Limb + w.lo

\* max(0, min(s, hi)) for a wide value s outside the int32 range and
\* 0 <= hi < 2^31.
ClampOfWide(s, hi) == IF s.hi > 32767 THEN hi ELSE 0

C21_WrappedClamp ==
  (pc = "done" /\ op = "dynamic_slice") =>
    \A d \in DOMAIN args.operand_shape :
      LET hi == args.operand_shape[d] - args.slice_sizes[d]
          s  == args.start_indices[d]
      IN  ~IsInt32(s) =>
            /\ res.start[d] = Max(0, Min(WrappedInt32(s), hi))
            /\ res.start[d] \in 0..hi

\* Length 10, slice size 5, start 2^31 (an unsigned 32-bit value): the cast
\* gives -2^31 and the effective start is 0, while
\* max(0, min(s, extent - slice_size)) is 5.
C21_Witness ==
  /\ pc = "done" /\ op = "dynamic_slice"
  /\ args.operand_shape = <<10>> /\ args.slice_sizes = <<5>>
  /\ args.start_indices = <<Wide(32768, 0)>>
  /\ ~IsInt32(args.start_indices[1])
  /\ res.start = <<0>>
  /\ res.start[1] # ClampOfWide(args.start_indices[1], 5)
  /\ res.out = Ok(<<(<<0, 1, 2, 3, 4>>)>>)

(***************************************************************************)
(* C22: for every axis of extent n >= 0 and interior padding i >= 0, the   *)
(* extent of the buffer the interior-padding step scatters into is not     *)
(* negative and equals n + max(n-1, 0)*i, an empty axis (n = 0) with       *)
(* i > 0 included.                                                         *)
(***************************************************************************)
PadHasInterior(a) == \E d \in DOMAIN a.padding_config : a.padding_config[d][3] # 0

C22_InteriorExtent ==
  (pc = "done" /\ op = "pad" /\ PadHasInterior(args)) =>
    LET output_shape == InteriorOutputShape(args.operand.shape,
                                            args.padding_config)
    IN  \A d \in DOMAIN args.operand.shape :
          LET n == args.operand.shape[d]
              i == args.padding_config[d][3]
          IN  /\ output_shape[d] >= 0
              /\ output_shape[d] = n + (IF n >= 1 THEN n - 1 ELSE 0) * i

\* The part of C22 that holds: operands without an empty axis.
C22_InteriorExtentNonEmpty ==
  (op = "pad" => \A d \in DOMAIN args.operand.shape : args.operand.shape[d] >= 1)
    => C22_InteriorExtent

=============================================================================
